---- MODULE Spec2Model ----
(***************************************************************************)
(* A model of the turtal event store: the criteria / append-condition      *)
(* algebra, the two query builders (SQLite, PostgreSQL), and the append    *)
(* and read operations of the two event stores acting on the tables their  *)
(* schema definitions create.                                              *)
(*                                                                         *)
(* Strings that the code only compares (ids, types, JSON texts) are TLA+   *)
(* strings.  Tags are sequences of one-character strings, because the      *)
(* SQLite read path joins them with GROUP_CONCAT and splits them on ','.   *)
(***************************************************************************)
EXTENDS Naturals, Integers, Sequences, FiniteSets, TLC

VARIABLES backend, db, call, txns, history, begun

vars == <<backend, db, call, txns, history, begun>>

(***************************************************************************)
(* Bounds of the model.                                                    *)
(***************************************************************************)
\* largest value the position sequence may reach before appends stop
MaxSeq == 3
\* largest number of events in one append call
MaxBatch == 2
\* largest number of transactions the concurrent callers begin
MaxTxns == 2
\* largest number of types, and of tags, a caller pushes onto one criteria
MaxEntries == 2

(***************************************************************************)
(* Inputs: a pool of events, criteria and cursors the callers draw from.   *)
(***************************************************************************)
TagX == <<"x">>
TagY == <<"y">>

EventA == [id |-> "a", type |-> "T", payload |-> "obj", tags |-> <<TagX>>]
EventB == [id |-> "b", type |-> "U", payload |-> "obj", tags |-> <<TagY, TagX>>]
\* its id differs from EventA's in case only, and it names one tag twice
EventUpperA == [id |-> "A", type |-> "T", payload |-> "NaN", tags |-> <<TagX, TagX>>]
EventD == [id |-> "d", type |-> "T", payload |-> "obj", tags |-> <<>>]

EventPool == {EventA, EventB, EventUpperA, EventD}

RECURSIVE SeqsUpTo(_, _)
SeqsUpTo(S, n) ==
  IF n = 0 THEN {<<>>}
  ELSE LET shorter == SeqsUpTo(S, n - 1)
       IN shorter \cup {Append(s, x) : s \in {t \in shorter : Len(t) = n - 1}, x \in S}

Batches == SeqsUpTo(EventPool, MaxBatch)

TypeLists == {<<>>, <<"T">>, <<"U", "T">>}
TagLists == {<<>>, <<TagX>>, <<TagX, TagY>>}
Cursors == 0 .. (MaxSeq - 1)

Range(s) == {s[i] : i \in 1 .. Len(s)}

(***************************************************************************)
(* EventCriteria: two arrays that forTypes / forTags push onto.            *)
(***************************************************************************)
NewEventCriteria == [types |-> <<>>, tags |-> <<>>]

forTypes(criteria, types) == [criteria EXCEPT !.types = @ \o types]

forTags(criteria, tags) == [criteria EXCEPT !.tags = @ \o tags]

CriteriaIsEmpty(criteria) == Len(criteria.types) = 0 /\ Len(criteria.tags) = 0

\* the criteria a caller builds: new EventCriteria().forTypes(...).forTags(...)
CriteriaPool == {forTags(forTypes(NewEventCriteria, ty), tg) : ty \in TypeLists, tg \in TagLists}

(***************************************************************************)
(* AppendCondition.                                                        *)
(***************************************************************************)
EmptyCondition == [criteria |-> NewEventCriteria, after |-> 0]

\* variant: the cursor kept for an empty criteria too
forCriteriaKeepsCursor(criteria, after) == [criteria |-> criteria, after |-> after]

forCriteria(criteria, after) ==
  IF CriteriaIsEmpty(criteria) THEN EmptyCondition
  ELSE [criteria |-> criteria, after |-> after]

ConditionIsEmpty(condition) == CriteriaIsEmpty(condition.criteria)

(***************************************************************************)
(* QueryBuilder: withTypes / withTags / afterPosition return a new builder. *)
(***************************************************************************)
NewQueryBuilder == [types |-> <<>>, tags |-> <<>>, after |-> 0]

\* variant: a builder that keeps the first type only
withTypesFirstOnly(builder, types) ==
  [types |-> IF types = <<>> THEN <<>> ELSE <<types[1]>>, tags |-> builder.tags, after |-> builder.after]

\* variant: a builder that drops the types it is given
withTypesDropped(builder, types) == builder

withTypes(builder, types) == [types |-> types, tags |-> builder.tags, after |-> builder.after]

withTags(builder, tags) == [types |-> builder.types, tags |-> tags, after |-> builder.after]

afterPosition(builder, position) == [types |-> builder.types, tags |-> builder.tags, after |-> position]

applyTo(criteria, builder) == withTags(withTypes(builder, criteria.types), criteria.tags)

\* variant: the criteria applied, the cursor left out
ConditionBuilderNoCursor(condition, builder) == applyTo(condition.criteria, builder)

\* AppendCondition.query(builder): the criteria applied, then the cursor
ConditionBuilder(condition, builder) == afterPosition(applyTo(condition.criteria, builder), condition.after)

(***************************************************************************)
(* AppendConditionError: an Error whose message is built from toString()   *)
(* of each event and of the condition.  Neither DomainEvent (a plain       *)
(* object) nor AppendCondition defines toString, so Object.prototype's     *)
(* applies.  The message is kept as its lines.                             *)
(***************************************************************************)
ObjectToString(object) == "[object Object]"

AppendConditionError(appendCondition, events) ==
  [name |-> "AppendConditionError",
   message |-> <<"The following events could not be appended:">>
                 \o [i \in 1 .. Len(events) |-> ObjectToString(events[i])]
                 \o <<"The append condition was: " \o ObjectToString(appendCondition) \o ".">>]

(***************************************************************************)
(* SqliteQueryBuilder.build(): the text is the sequence of clauses that    *)
(* 'WHERE ' + clauses.join(' AND ') holds (empty sequence: the text '');   *)
(* each clause records how many '?' it carries.  values is the flat list   *)
(* of bound parameters.                                                    *)
(***************************************************************************)
\* variant: the type names written into the text
SqliteTypesClauseInterpolated(builder) ==
  IF Len(builder.types) # 0
  THEN [text |-> <<[sql |-> <<"events.type IN (..)", builder.types>>, params |-> 0]>>,
        values |-> <<>>]
  ELSE [text |-> <<>>, values |-> <<>>]

SqliteTypesClause(builder) ==
  IF Len(builder.types) # 0
  THEN [text |-> <<[sql |-> "events.type IN (?..)", params |-> Len(builder.types)]>>,
        values |-> builder.types]
  ELSE [text |-> <<>>, values |-> <<>>]

\* variant: one EXISTS clause for the first tag only
SqliteTagsClauseFirstOnly(builder) ==
  IF Len(builder.tags) = 0 THEN [text |-> <<>>, values |-> <<>>]
  ELSE [text |-> <<[sql |-> "EXISTS (SELECT 1 FROM event_tags WHERE event_position = events.position AND tag = ?)",
                    params |-> 1]>>,
        values |-> <<builder.tags[1]>>]

SqliteTagsClause(builder) ==
  [text |-> [i \in 1 .. Len(builder.tags) |->
               [sql |-> "EXISTS (SELECT 1 FROM event_tags WHERE event_position = events.position AND tag = ?)",
                params |-> 1]],
   values |-> builder.tags]

\* variant: the position clause emitted whatever the cursor
SqlitePositionClauseAlways(builder) ==
  [text |-> <<[sql |-> "events.position > ?", params |-> 1]>>, values |-> <<builder.after>>]

SqlitePositionClause(builder) ==
  IF builder.after # 0
  THEN [text |-> <<[sql |-> "events.position > ?", params |-> 1]>>, values |-> <<builder.after>>]
  ELSE [text |-> <<>>, values |-> <<>>]

\* variant: the tag values pushed before the type values
SqliteBuildTagsFirst(builder) ==
  [text |-> SqliteTypesClause(builder).text \o SqliteTagsClause(builder).text
              \o SqlitePositionClause(builder).text,
   values |-> SqliteTagsClause(builder).values \o SqliteTypesClause(builder).values
              \o SqlitePositionClause(builder).values]

SqliteBuild(builder) ==
  [text |-> SqliteTypesClause(builder).text \o SqliteTagsClause(builder).text
              \o SqlitePositionClause(builder).text,
   values |-> SqliteTypesClause(builder).values \o SqliteTagsClause(builder).values
              \o SqlitePositionClause(builder).values]

\* clauses.length ? `WHERE ${clauses.join(' AND ')}` : '' as the words of the text
RECURSIVE JoinAnd(_)
JoinAnd(clauses) ==
  IF Len(clauses) <= 1 THEN [i \in 1 .. Len(clauses) |-> clauses[i].sql]
  ELSE <<Head(clauses).sql, "AND">> \o JoinAnd(Tail(clauses))

WhereText(clauses) == IF Len(clauses) # 0 THEN <<"WHERE">> \o JoinAnd(clauses) ELSE <<>>

(***************************************************************************)
(* The SQLite engine evaluating a built WHERE text for one row of events:  *)
(* the clauses are AND-ed and the '?' are bound to values in text order.    *)
(***************************************************************************)
\* variant: the cursor position itself counts as not yet observed
SqliteClauseHoldsFromCursor(clause, bound, database, row) ==
  CASE clause.sql = "events.type IN (?..)" -> row.type \in Range(bound)
    [] clause.sql = "EXISTS (SELECT 1 FROM event_tags WHERE event_position = events.position AND tag = ?)" ->
         \E t \in database.event_tags : t.event_position = row.position /\ t.tag = bound[1]
    [] clause.sql = "events.position > ?" -> row.position >= bound[1]

\* variant: the tag subquery not tied to the row, so a tag of any event counts
SqliteClauseHoldsUncorrelated(clause, bound, database, row) ==
  CASE clause.sql = "events.type IN (?..)" -> row.type \in Range(bound)
    [] clause.sql = "EXISTS (SELECT 1 FROM event_tags WHERE event_position = events.position AND tag = ?)" ->
         \E t \in database.event_tags : t.tag = bound[1]
    [] clause.sql = "events.position > ?" -> row.position > bound[1]

SqliteClauseHolds(clause, bound, database, row) ==
  CASE clause.sql = "events.type IN (?..)" -> row.type \in Range(bound)
    [] clause.sql = "EXISTS (SELECT 1 FROM event_tags WHERE event_position = events.position AND tag = ?)" ->
         \E t \in database.event_tags : t.event_position = row.position /\ t.tag = bound[1]
    [] clause.sql = "events.position > ?" -> row.position > bound[1]

RECURSIVE SqliteWhere(_, _, _, _)
SqliteWhere(text, values, database, row) ==
  IF text = <<>> THEN TRUE
  ELSE LET n == Head(text).params
       IN /\ SqliteClauseHolds(Head(text), SubSeq(values, 1, n), database, row)
          /\ SqliteWhere(Tail(text), SubSeq(values, n + 1, Len(values)), database, row)

(***************************************************************************)
(* Values the engines and the runtime convert.                             *)
(***************************************************************************)
\* COLLATE NOCASE folds the 26 upper-case letters of ASCII to lower case
\* before comparing, and no other character; an id is one character here
AsciiLower ==
  [A |-> "a", B |-> "b", C |-> "c", D |-> "d", E |-> "e", F |-> "f", G |-> "g",
   H |-> "h", I |-> "i", J |-> "j", K |-> "k", L |-> "l", M |-> "m", N |-> "n",
   O |-> "o", P |-> "p", Q |-> "q", R |-> "r", S |-> "s", T |-> "t", U |-> "u",
   V |-> "v", W |-> "w", X |-> "x", Y |-> "y", Z |-> "z"]

NoCase(id) == IF id \in DOMAIN AsciiLower THEN AsciiLower[id] ELSE id

\* JSON.stringify: NaN has no JSON form and becomes null
JsonStringify(payload) ==
  CASE payload = "obj" -> "{\"foo\":\"bar\"}"
    [] payload = "NaN" -> "null"
    [] payload = "null" -> "null"

JsonParse(json) ==
  CASE json = "{\"foo\":\"bar\"}" -> "obj"
    [] json = "null" -> "null"

\* BINARY collation of the characters tags are made of
CharCode(c) == CASE c = "," -> 44 [] c = "x" -> 120 [] c = "y" -> 121

RECURSIVE TextLess(_, _)
TextLess(s, t) ==
  IF t = <<>> THEN FALSE
  ELSE IF s = <<>> THEN TRUE
  ELSE IF CharCode(Head(s)) # CharCode(Head(t)) THEN CharCode(Head(s)) < CharCode(Head(t))
  ELSE TextLess(Tail(s), Tail(t))

\* String.prototype.split(','), on a text given as its characters
RECURSIVE SplitFrom(_, _)
SplitFrom(text, piece) ==
  IF text = <<>> THEN <<piece>>
  ELSE IF Head(text) = "," THEN <<piece>> \o SplitFrom(Tail(text), <<>>)
  ELSE SplitFrom(Tail(text), Append(piece, Head(text)))

Split(text) == SplitFrom(text, <<>>)

\* the rows of a table in ascending order of position (ORDER BY position)
RECURSIVE OrderByPosition(_)
OrderByPosition(rows) ==
  IF rows = {} THEN <<>>
  ELSE LET first == CHOOSE r \in rows : \A o \in rows : r.position <= o.position
       IN <<first>> \o OrderByPosition(rows \ {first})

(***************************************************************************)
(* SQLite: the tables of SQLITE_SCHEMA_DEF.                                *)
(*   events(id UNIQUE COLLATE NOCASE, position INTEGER PRIMARY KEY         *)
(*          AUTOINCREMENT, type, payload)                                  *)
(*   event_tags(event_position, tag, PRIMARY KEY (event_position, tag))    *)
(* seq is the sqlite_sequence row of events, an ordinary table that a      *)
(* rollback restores with the others.                                      *)
(***************************************************************************)
SqliteSchema == [events |-> {}, event_tags |-> {}, seq |-> 0]

\* INSERT INTO event_tags for each tag in turn; the first PRIMARY KEY
\* violation throws and leaves the earlier rows for the rollback
RECURSIVE SqliteInsertTags(_, _, _)
SqliteInsertTags(database, tags, lastInsertRowid) ==
  IF tags = <<>> THEN [db |-> database, error |-> "none"]
  ELSE LET tagRow == [event_position |-> lastInsertRowid, tag |-> Head(tags)]
       IN IF tagRow \in database.event_tags
          THEN [db |-> database, error |-> "SQLITE_CONSTRAINT_PRIMARYKEY"]
          ELSE SqliteInsertTags([database EXCEPT !.event_tags = @ \cup {tagRow}],
                                Tail(tags), lastInsertRowid)

\* AUTOINCREMENT: one more than the largest rowid the table ever held
SqliteNextRowid(database) ==
  LET used == {database.seq} \cup {r.position : r \in database.events}
  IN (CHOOSE m \in used : \A u \in used : u <= m) + 1

\* variant: INSERT OR REPLACE, which deletes the row holding the id first
SqliteInsertOrReplaceEvent(database, event) ==
  LET kept == [database EXCEPT
                 !.events = {r \in @ : NoCase(r.id) # NoCase(event.id)},
                 !.event_tags = {t \in @ : \E r \in database.events :
                                   r.position = t.event_position /\ NoCase(r.id) # NoCase(event.id)}]
      rowid == SqliteNextRowid(database)
      row == [id |-> event.id, position |-> rowid, type |-> event.type,
              payload |-> JsonStringify(event.payload)]
  IN SqliteInsertTags([kept EXCEPT !.events = @ \cup {row}, !.seq = rowid], event.tags, rowid)

SqliteInsertEvent(database, event) ==
  IF \E r \in database.events : NoCase(r.id) = NoCase(event.id)
  THEN [db |-> database, error |-> "SQLITE_CONSTRAINT_UNIQUE"]
  ELSE LET rowid == SqliteNextRowid(database)
           row == [id |-> event.id, position |-> rowid, type |-> event.type,
                   payload |-> JsonStringify(event.payload)]
       IN SqliteInsertTags([database EXCEPT !.events = @ \cup {row}, !.seq = rowid],
                           event.tags, rowid)

\* events.forEach(insertEvent): stops at the first insert that throws
RECURSIVE SqliteInsertAll(_, _)
SqliteInsertAll(database, events) ==
  IF events = <<>> THEN [db |-> database, error |-> "none"]
  ELSE LET one == SqliteInsertEvent(database, Head(events))
       IN IF one.error # "none" THEN one ELSE SqliteInsertAll(one.db, Tail(events))

\* variant: the query is run for an empty condition too
SqliteAppendShouldFailAlwaysQueries(database, condition) ==
  LET q == SqliteBuild(ConditionBuilder(condition, NewQueryBuilder))
  IN \E row \in database.events : SqliteWhere(q.text, q.values, database, row)

SqliteAppendShouldFail(database, condition) ==
  IF ConditionIsEmpty(condition) THEN FALSE
  ELSE LET q == SqliteBuild(ConditionBuilder(condition, NewQueryBuilder))
       IN \E row \in database.events : SqliteWhere(q.text, q.values, database, row)

\* variant: with no event to insert the condition is not checked
SqliteAppendBodyReturnsEarly(database, condition, events) ==
  IF events = <<>> THEN [db |-> database, error |-> "none"]
  ELSE IF SqliteAppendShouldFail(database, condition)
  THEN [db |-> database, error |-> "AppendConditionError"]
  ELSE SqliteInsertAll(database, events)

\* variant: the events inserted first, the condition checked on what results
SqliteAppendBodyCheckAfterInserts(database, condition, events) ==
  LET ran == SqliteInsertAll(database, events)
  IN IF ran.error = "none" /\ SqliteAppendShouldFail(ran.db, condition)
     THEN [db |-> ran.db, error |-> "AppendConditionError"]
     ELSE ran

\* the function handed to db.transaction: the check, then the inserts
SqliteAppendBody(database, condition, events) ==
  IF SqliteAppendShouldFail(database, condition)
  THEN [db |-> database, error |-> "AppendConditionError"]
  ELSE SqliteInsertAll(database, events)

\* variant: fn run without a transaction, nothing is rolled back
SqliteNoTransaction(before, ran) == ran

\* db.transaction(fn)(): COMMIT when fn returns, ROLLBACK and rethrow when it throws
SqliteTransaction(before, ran) ==
  IF ran.error = "none" THEN ran ELSE [db |-> before, error |-> ran.error]

\* variant: the events inserted and committed first, the condition checked after
SqliteAppendThenCheck(database, events, condition) ==
  LET done == SqliteTransaction(database, SqliteInsertAll(database, events))
  IN IF done.error = "none" /\ SqliteAppendShouldFail(database, condition)
     THEN [db |-> done.db, error |-> "AppendConditionError"]
     ELSE done

SqliteAppend(database, events, condition) ==
  SqliteTransaction(database, SqliteAppendBody(database, condition, events))

\* GROUP_CONCAT(t.tag) over the event_tags rows LEFT JOINed to one event, read
\* through the primary key index (event_position, tag), so in tag order;
\* NULL when the event has no tag row
RECURSIVE SqliteConcat(_)
SqliteConcat(tags) ==
  LET first == CHOOSE t \in tags : \A o \in tags : t = o \/ TextLess(t, o)
  IN IF tags = {first} THEN first
     ELSE first \o <<",">> \o SqliteConcat(tags \ {first})

SqliteGroupConcat(database, position) ==
  LET tags == {t.tag : t \in {u \in database.event_tags : u.event_position = position}}
  IN IF tags = {} THEN [null |-> TRUE, text |-> <<>>]
     ELSE [null |-> FALSE, text |-> SqliteConcat(tags)]

\* variant: event_tags joined with an inner JOIN
SqliteEventDbRowsInnerJoin(database, criteria) ==
  LET q == SqliteBuild(applyTo(criteria, NewQueryBuilder))
      matching == {r \in database.events :
                     /\ SqliteWhere(q.text, q.values, database, r)
                     /\ \E t \in database.event_tags : t.event_position = r.position}
      ordered == OrderByPosition(matching)
  IN [i \in 1 .. Len(ordered) |->
        [id |-> ordered[i].id, position |-> ordered[i].position, type |-> ordered[i].type,
         payload |-> ordered[i].payload,
         tags |-> SqliteGroupConcat(database, ordered[i].position)]]

SqliteEventDbRows(database, criteria) ==
  LET q == SqliteBuild(applyTo(criteria, NewQueryBuilder))
      matching == {r \in database.events : SqliteWhere(q.text, q.values, database, r)}
      ordered == OrderByPosition(matching)
  IN [i \in 1 .. Len(ordered) |->
        [id |-> ordered[i].id, position |-> ordered[i].position, type |-> ordered[i].type,
         payload |-> ordered[i].payload,
         tags |-> SqliteGroupConcat(database, ordered[i].position)]]

\* row.tags ? row.tags.split(',') : []  (null and '' are both falsy)
SqliteRowTags(tags) == IF tags.null \/ tags.text = <<>> THEN <<>> ELSE Split(tags.text)

SqliteEvents(database, criteria) ==
  LET rows == SqliteEventDbRows(database, criteria)
  IN [i \in 1 .. Len(rows) |->
        [id |-> rows[i].id, position |-> rows[i].position, type |-> rows[i].type,
         payload |-> JsonParse(rows[i].payload), tags |-> SqliteRowTags(rows[i].tags)]]

(***************************************************************************)
(* PostgresQueryBuilder.build(): one clause per present component, each    *)
(* with the number of its placeholder; an array is one bound value.        *)
(***************************************************************************)
PostgresBuild(builder) ==
  LET hasTypes == Len(builder.types) # 0
      hasTags == Len(builder.tags) # 0
      hasAfter == builder.after # 0
      tagsIndex == IF hasTypes THEN 2 ELSE 1
      afterIndex == IF hasTags THEN tagsIndex + 1 ELSE tagsIndex
  IN [text |-> (IF hasTypes THEN <<[sql |-> "type = ANY($n)", param |-> 1]>> ELSE <<>>)
                 \o (IF hasTags THEN <<[sql |-> "tags @> $n", param |-> tagsIndex]>> ELSE <<>>)
                 \o (IF hasAfter THEN <<[sql |-> "position > $n", param |-> afterIndex]>> ELSE <<>>),
      values |-> (IF hasTypes THEN <<builder.types>> ELSE <<>>)
                 \o (IF hasTags THEN <<builder.tags>> ELSE <<>>)
                 \o (IF hasAfter THEN <<builder.after>> ELSE <<>>)]

\* variant: tags matched by counting, as many matching tags as the list is long
PostgresClauseHoldsByCount(clause, values, row) ==
  CASE clause.sql = "type = ANY($n)" -> row.type \in Range(values[clause.param])
    [] clause.sql = "tags @> $n" ->
         Cardinality(Range(values[clause.param]) \cap Range(row.tags)) = Len(values[clause.param])
    [] clause.sql = "position > $n" -> row.position > values[clause.param]

\* the PostgreSQL engine evaluating the WHERE text for one row: $n is values[n]
PostgresClauseHolds(clause, values, row) ==
  CASE clause.sql = "type = ANY($n)" -> row.type \in Range(values[clause.param])
    [] clause.sql = "tags @> $n" -> Range(values[clause.param]) \subseteq Range(row.tags)
    [] clause.sql = "position > $n" -> row.position > values[clause.param]

PostgresWhere(text, values, row) ==
  \A i \in 1 .. Len(text) : PostgresClauseHolds(text[i], values, row)

(***************************************************************************)
(* PostgreSQL: the table of POSTGRES_SCHEMA_DEF.                           *)
(*   events(id TEXT UNIQUE, position BIGSERIAL PRIMARY KEY, type, payload, *)
(*          tags TEXT[])                                                   *)
(* seq is the sequence behind BIGSERIAL: nextval is never rolled back.     *)
(***************************************************************************)
PostgresSchema == [events |-> {}, seq |-> 0]

\* INSERT INTO events ...: the default nextval('events_position_seq') is taken
\* before the unique index on id is checked
PostgresRow(event, position) ==
  [id |-> event.id, position |-> position, type |-> event.type,
   payload |-> JsonStringify(event.payload), tags |-> event.tags]

PostgresInsertEvent(database, event) ==
  LET position == database.seq + 1
      row == PostgresRow(event, position)
  IN IF \E r \in database.events : r.id = event.id
     THEN [db |-> [database EXCEPT !.seq = position], error |-> "23505"]
     ELSE [db |-> [database EXCEPT !.events = @ \cup {row}, !.seq = position], error |-> "none"]

RECURSIVE PostgresInsertAll(_, _)
PostgresInsertAll(database, events) ==
  IF events = <<>> THEN [db |-> database, error |-> "none"]
  ELSE LET one == PostgresInsertEvent(database, Head(events))
       IN IF one.error # "none" THEN one ELSE PostgresInsertAll(one.db, Tail(events))

PostgresAppendShouldFail(database, condition) ==
  IF ConditionIsEmpty(condition) THEN FALSE
  ELSE LET q == PostgresBuild(ConditionBuilder(condition, NewQueryBuilder))
       IN \E row \in database.events : PostgresWhere(q.text, q.values, row)

\* the function handed to withOptimisticLock
PostgresAppendBody(database, condition, events) ==
  IF PostgresAppendShouldFail(database, condition)
  THEN [db |-> database, error |-> "AppendConditionError"]
  ELSE PostgresInsertAll(database, events)

\* withOptimisticLock with no other transaction open: COMMIT keeps the rows,
\* ROLLBACK drops them; the sequence keeps the values it handed out
PostgresTransaction(before, ran) ==
  IF ran.error = "none" THEN ran
  ELSE [db |-> [before EXCEPT !.seq = ran.db.seq], error |-> ran.error]

PostgresAppend(database, events, condition) ==
  PostgresTransaction(database, PostgresAppendBody(database, condition, events))

PostgresEvents(database, criteria) ==
  LET q == PostgresBuild(applyTo(criteria, NewQueryBuilder))
      rows == OrderByPosition({r \in database.events : PostgresWhere(q.text, q.values, r)})
  IN [i \in 1 .. Len(rows) |->
        [id |-> rows[i].id, position |-> rows[i].position, type |-> rows[i].type,
         payload |-> JsonParse(rows[i].payload), tags |-> rows[i].tags]]

(***************************************************************************)
(* PostgresEventStore.append, statement by statement, for callers that do  *)
(* not await one another: each call holds a pooled client and a            *)
(* transaction of its own.  A transaction sees the rows committed when its *)
(* first query ran (its snapshot) and its own rows.                        *)
(***************************************************************************)
Clients == {"c1", "c2"}

\* variant: the default isolation level of PostgreSQL
ReadCommitted == "READ COMMITTED"

\* BEGIN TRANSACTION ISOLATION LEVEL ...
IsolationLevel == "SERIALIZABLE"

NoTxn == [pc |-> "idle"]

\* what one transaction read and wrote, as PostgreSQL keeps it to find
\* read-write dependencies: the predicate of its check (if it ran one), the
\* rows its snapshot held, the rows it inserted
Footprint(txn) ==
  [read |-> txn.read, condition |-> txn.condition, snapshot |-> txn.snapshot,
   writes |-> txn.writes]

\* a must precede b in any serial order: a's check did not see a row that b
\* inserted and that a's predicate selects
ReadWriteDependency(a, b) ==
  /\ a.read
  /\ LET q == PostgresBuild(ConditionBuilder(a.condition, NewQueryBuilder))
     IN \E w \in b.writes : w \notin a.snapshot /\ PostgresWhere(q.text, q.values, w)

RECURSIVE ReachableFrom(_, _, _)
ReachableFrom(reached, nodes, steps) ==
  IF steps = 0 THEN reached
  ELSE ReachableFrom(reached \cup {b \in nodes : \E a \in reached : ReadWriteDependency(a, b)},
                     nodes, steps - 1)

\* committing txn would close a cycle of dependencies among committed
\* transactions: no serial order explains them, so SERIALIZABLE refuses
ClosesCycle(txn) ==
  LET me == Footprint(txn)
      nodes == history \cup {me}
      next == {b \in nodes \ {me} : ReadWriteDependency(me, b)}
  IN me \in ReachableFrom(next, nodes, Cardinality(nodes))

\* the server side of connections that ended while their INSERT waited for
\* another transaction.  PostgreSQL learns that a connection is gone when the
\* backend next reads from it or writes to it; a backend blocked in a lock
\* wait does neither, so its transaction stays open, with the rows it has
\* inserted (writes), until the id it waits for (waits) is released
Abandoned(c) == IF txns[c].pc = "idle" THEN {} ELSE txns[c].abandoned

AllAbandoned == UNION {Abandoned(c) : c \in Clients}

\* rows another open transaction has inserted and not yet committed: those of
\* the calls in flight and those of the abandoned backends
UncommittedOf(others) ==
  UNION {txns[o].writes : o \in {x \in others : txns[x].pc \in {"insert", "waiting", "commit"}}}
    \cup UNION {b.writes : b \in AllAbandoned}

\* what withOptimisticLock holds once pool.connect() has handed it a client:
\* no statement sent yet
NewTxn(events, condition) ==
  [pc |-> "begin", connected |-> TRUE, events |-> events, todo |-> events,
   condition |-> condition, read |-> FALSE, snapshot |-> {}, writes |-> {},
   position |-> 0, error |-> "none", attempts |-> 0, sent |-> <<>>, released |-> 0,
   swallowed |-> "none", abandoned |-> {}]

\* store.append(events, condition): pool.connect() resolves with a client
ConcAppendCall(c, events, criteria, after) ==
  /\ backend = "postgres"
  /\ txns[c].pc \in {"idle", "settled"}
  /\ begun < MaxTxns
  /\ begun' = begun + 1
  /\ txns' = [txns EXCEPT ![c] =
       [NewTxn(events, forCriteria(criteria, after)) EXCEPT !.abandoned = Abandoned(c)]]
  /\ UNCHANGED <<backend, db, call, history>>

\* store.append(events, condition): pool.connect() rejects, so append rejects
\* with that error before the try block: no statement is sent and there is no
\* client to release
ConcConnectRejects(c, events, criteria, after) ==
  /\ backend = "postgres"
  /\ txns[c].pc \in {"idle", "settled"}
  /\ begun < MaxTxns
  /\ begun' = begun + 1
  /\ txns' = [txns EXCEPT ![c] =
       [NewTxn(events, forCriteria(criteria, after)) EXCEPT
          !.pc = "settled", !.connected = FALSE, !.error = "ECONNREFUSED",
          !.abandoned = Abandoned(c)]]
  /\ UNCHANGED <<backend, db, call, history>>

\* client.query('BEGIN TRANSACTION ISOLATION LEVEL SERIALIZABLE')
ConcBegin(c) ==
  /\ txns[c].pc = "begin"
  /\ txns' = [txns EXCEPT ![c].pc = "check", ![c].attempts = @ + 1,
                          ![c].sent = Append(@, "BEGIN")]
  /\ UNCHANGED <<backend, db, call, history, begun>>

\* the call after its check: found is the answer of the SELECT, rows the
\* snapshot the SELECT ran on; no query is sent for an empty condition
AfterCheck(txn, found, rows) ==
  LET next == IF txn.todo = <<>> THEN "commit" ELSE "insert"
  IN IF ConditionIsEmpty(txn.condition)
     THEN [txn EXCEPT !.pc = next]
     ELSE IF found
          THEN [txn EXCEPT !.pc = "rollback", !.error = "AppendConditionError",
                           !.read = TRUE, !.snapshot = rows, !.sent = Append(@, "SELECT")]
          ELSE [txn EXCEPT !.pc = next, !.read = TRUE, !.snapshot = rows,
                           !.sent = Append(@, "SELECT")]

\* appendShouldFail(client, condition): no query for an empty condition;
\* otherwise SELECT 1 FROM events <where> LIMIT 1 on the snapshot
ConcCheck(c) ==
  /\ txns[c].pc = "check"
  /\ txns' = [txns EXCEPT ![c] =
       AfterCheck(txns[c],
                  PostgresAppendShouldFail([events |-> db.events, seq |-> db.seq],
                                           txns[c].condition),
                  db.events)]
  /\ UNCHANGED <<backend, db, call, history, begun>>

\* insertEvent(client, event) for the next event of the call: the INSERT takes
\* the next value of the sequence when it is sent; if another open transaction
\* has inserted the id, it then waits for that transaction to end, otherwise
\* it is answered at once
ConcInsert(c) ==
  /\ txns[c].pc = "insert"
  /\ LET txn == txns[c]
         event == Head(txn.todo)
         snapshot == IF txn.read \/ txn.writes # {} THEN txn.snapshot ELSE db.events
         done == PostgresInsertEvent([events |-> db.events \cup txn.writes, seq |-> db.seq], event)
     IN /\ db' = [db EXCEPT !.seq = done.db.seq]
        /\ txns' = [txns EXCEPT ![c] =
             IF \E r \in UncommittedOf(Clients \ {c}) : r.id = event.id
             THEN [txn EXCEPT !.pc = "waiting", !.position = done.db.seq,
                              !.snapshot = snapshot, !.sent = Append(@, "INSERT")]
             ELSE IF done.error # "none"
             THEN [txn EXCEPT !.pc = "rollback", !.error = done.error, !.snapshot = snapshot,
                              !.sent = Append(@, "INSERT")]
             ELSE [txn EXCEPT !.pc = IF Tail(txn.todo) = <<>> THEN "commit" ELSE "insert",
                              !.todo = Tail(txn.todo), !.snapshot = snapshot,
                              !.writes = done.db.events \ db.events,
                              !.sent = Append(@, "INSERT")]]
  /\ UNCHANGED <<backend, call, history, begun>>

\* the transaction a sent INSERT waited for has ended: the INSERT is answered,
\* with 23505 if that transaction committed the id, and otherwise the row is
\* written at the position the INSERT took when it was sent
ConcInsertAnswered(c) ==
  /\ txns[c].pc = "waiting"
  /\ LET txn == txns[c]
         event == Head(txn.todo)
     IN /\ \A r \in UncommittedOf(Clients \ {c}) : r.id # event.id
        /\ txns' = [txns EXCEPT ![c] =
             IF \E r \in db.events : r.id = event.id
             THEN [txn EXCEPT !.pc = "rollback", !.error = "23505", !.position = 0]
             ELSE [txn EXCEPT !.pc = IF Tail(txn.todo) = <<>> THEN "commit" ELSE "insert",
                              !.todo = Tail(txn.todo), !.position = 0,
                              !.writes = @ \cup {PostgresRow(event, txn.position)}]]
  /\ UNCHANGED <<backend, db, call, history, begun>>

\* c's sent INSERT waits for an id that o has inserted and not committed
WaitsFor(c, o) ==
  /\ txns[c].pc = "waiting" /\ txns[o].pc \in {"insert", "waiting", "commit"}
  /\ \E r \in txns[o].writes : r.id = Head(txns[c].todo).id

\* c's sent INSERT waits for an id that the abandoned backend b has inserted
WaitsForAbandoned(c, b) ==
  /\ txns[c].pc = "waiting"
  /\ \E r \in b.writes : r.id = Head(txns[c].todo).id

\* the INSERT of the abandoned backend b waits for an id that o has inserted
\* and not committed
AbandonedWaitsFor(b, o) ==
  /\ txns[o].pc \in {"insert", "waiting", "commit"}
  /\ \E r \in txns[o].writes : r.id = b.waits

\* two transactions whose INSERTs each wait for the other, the other being a
\* call in flight or an abandoned backend: PostgreSQL's deadlock detector
\* answers the INSERT of one of them with 40P01, here that of c; the sequence
\* values both INSERTs took when sent stay taken
ConcDeadlock(c) ==
  /\ \/ \E o \in Clients \ {c} : WaitsFor(c, o) /\ WaitsFor(o, c)
     \/ \E b \in AllAbandoned : WaitsForAbandoned(c, b) /\ AbandonedWaitsFor(b, c)
  /\ txns' = [txns EXCEPT ![c].pc = "rollback", ![c].error = "40P01", ![c].position = 0]
  /\ UNCHANGED <<backend, db, call, history, begun>>

\* client.query('COMMIT'): under SERIALIZABLE it fails with 40001 when the
\* transaction cannot be placed in a serial order with those committed
ConcCommit(c) ==
  /\ txns[c].pc = "commit"
  /\ IF IsolationLevel = "SERIALIZABLE" /\ ClosesCycle(txns[c])
     THEN /\ txns' = [txns EXCEPT ![c].pc = "rollback", ![c].error = "40001",
                                  ![c].sent = Append(@, "COMMIT")]
          /\ UNCHANGED <<db, history>>
     ELSE /\ txns' = [txns EXCEPT ![c].pc = "release", ![c].sent = Append(@, "COMMIT")]
          /\ db' = [db EXCEPT !.events = @ \cup txns[c].writes]
          /\ history' = history \cup {Footprint(txns[c])}
  /\ UNCHANGED <<backend, call, begun>>

\* PostgreSQL tracks dependencies by relation and page, not by row: it may
\* fail a transaction with 40001 whenever it read the table and another
\* transaction, open or committed since its snapshot, wrote to it.  The
\* statement that fails is the INSERT being sent (which has taken its value of
\* the sequence by then), the INSERT that waits, or COMMIT
ConcSerializationFailure(c) ==
  /\ IsolationLevel = "SERIALIZABLE"
  /\ txns[c].pc \in {"insert", "waiting", "commit"}
  /\ txns[c].read
  /\ \/ UncommittedOf(Clients \ {c}) # {}
     \/ db.events \ txns[c].snapshot # {}
  /\ db' = [db EXCEPT !.seq = IF txns[c].pc = "insert" THEN @ + 1 ELSE @]
  /\ txns' = [txns EXCEPT ![c].pc = "rollback", ![c].error = "40001", ![c].position = 0,
                          ![c].sent = CASE txns[c].pc = "insert" -> Append(@, "INSERT")
                                        [] txns[c].pc = "waiting" -> @
                                        [] txns[c].pc = "commit" -> Append(@, "COMMIT")]
  /\ UNCHANGED <<backend, call, history, begun>>

\* variant: after ROLLBACK a serialization failure starts the transaction again
ConcRollbackRetries(c) ==
  /\ txns[c].pc = "rollback"
  /\ txns' = [txns EXCEPT ![c] =
       IF txns[c].error = "40001"
       THEN [txns[c] EXCEPT !.pc = "begin", !.todo = txns[c].events, !.read = FALSE,
                            !.snapshot = {}, !.writes = {}, !.error = "none",
                            !.sent = Append(@, "ROLLBACK")]
       ELSE [txns[c] EXCEPT !.pc = "release", !.writes = {}, !.sent = Append(@, "ROLLBACK")]]
  /\ UNCHANGED <<backend, db, call, history, begun>>

\* variant: ROLLBACK, and the error is dropped instead of rethrown
ConcRollbackSwallows(c) ==
  /\ txns[c].pc = "rollback"
  /\ txns' = [txns EXCEPT ![c].pc = "release", ![c].writes = {}, ![c].error = "none",
                          ![c].sent = Append(@, "ROLLBACK")]
  /\ UNCHANGED <<backend, db, call, history, begun>>

\* variant: the catch block rethrows whatever it caught as the condition error
ConcRollbackAsConditionError(c) ==
  /\ txns[c].pc = "rollback"
  /\ txns[c].error # "08006"
  /\ txns' = [txns EXCEPT ![c].pc = "release", ![c].writes = {},
                          ![c].error = "AppendConditionError",
                          ![c].sent = Append(@, "ROLLBACK")]
  /\ UNCHANGED <<backend, db, call, history, begun>>

\* catch: client.query('ROLLBACK'), then the error is rethrown; on a client
\* whose connection has ended the query cannot be answered
ConcRollback(c) ==
  /\ txns[c].pc = "rollback"
  /\ txns[c].error # "08006"
  /\ txns' = [txns EXCEPT ![c].pc = "release", ![c].writes = {},
                          ![c].sent = Append(@, "ROLLBACK")]
  /\ UNCHANGED <<backend, db, call, history, begun>>

\* finally: client.release(); the promise of append settles
ConcRelease(c) ==
  /\ txns[c].pc = "release"
  /\ txns' = [txns EXCEPT ![c].pc = "settled", ![c].released = @ + 1]
  /\ history' = IF \A o \in Clients \ {c} : txns[o].pc \in {"idle", "settled"} THEN {} ELSE history
  /\ UNCHANGED <<backend, db, call, begun>>

(***************************************************************************)
(* One caller that awaits each call before making the next.                *)
(***************************************************************************)
Idle == [op |-> "idle"]

StoreAppend(database, events, condition) ==
  IF backend = "sqlite" THEN SqliteAppend(database, events, condition)
  ELSE PostgresAppend(database, events, condition)

StoreEvents(database, criteria) ==
  IF backend = "sqlite" THEN SqliteEvents(database, criteria)
  ELSE PostgresEvents(database, criteria)

Init ==
  /\ backend \in {"sqlite", "postgres"}
  /\ db = IF backend = "sqlite" THEN SqliteSchema ELSE PostgresSchema
  /\ call = Idle
  /\ txns = [c \in Clients |-> NoTxn]
  /\ history = {}
  /\ begun = 0

\* the client the pool hands to the one call in flight
Caller == "c1"

\* the call as its caller holds it once the promise has settled
Settled(made, error) ==
  [op |-> "append", events |-> made.events, criteria |-> made.criteria,
   after |-> made.after, condition |-> made.condition, before |-> made.before,
   error |-> error,
   thrown |-> IF error = "AppendConditionError"
              THEN AppendConditionError(made.condition, made.events)
              ELSE [name |-> error]]

\* store.append(events, AppendCondition.forCriteria(criteria, after)).
\* SqliteEventStore.append runs the whole transaction before it returns its
\* promise; PostgresEventStore.append returns at its first await, with a
\* client of the pool, and goes on statement by statement.  before is the
\* log the call was made on.
AppendCall(events, criteria, after) ==
  /\ call.op = "idle"
  /\ db.seq + Len(events) <= MaxSeq
  /\ LET condition == forCriteria(criteria, after)
         made == [op |-> "pending", events |-> events, criteria |-> criteria,
                  after |-> after, condition |-> condition, before |-> db]
     IN IF backend = "sqlite"
        THEN /\ db' = SqliteAppend(db, events, condition).db
             /\ call' = Settled(made, SqliteAppend(db, events, condition).error)
             /\ UNCHANGED txns
        ELSE /\ call' = made
             /\ txns' = [txns EXCEPT ![Caller] = NewTxn(events, condition)]
             /\ UNCHANGED db
  /\ UNCHANGED <<backend, history, begun>>

\* the statements of the pending PostgresEventStore.append, one await each
AwaitedStep ==
  \/ ConcBegin(Caller)
  \/ ConcCheck(Caller)
  \/ ConcInsert(Caller)
  \/ ConcCommit(Caller)
  \/ ConcRollback(Caller)
  \/ ConcRelease(Caller)

\* the promise of the pending append settles with what withOptimisticLock
\* returned or threw
AppendSettles ==
  /\ call.op = "pending"
  /\ txns[Caller].pc = "settled"
  /\ call' = Settled(call, txns[Caller].error)
  /\ txns' = [txns EXCEPT ![Caller] = NoTxn]
  /\ UNCHANGED <<backend, db, history, begun>>

\* store.events(criteria)
EventsCall(criteria) ==
  /\ call.op = "idle"
  /\ call' = [op |-> "events", criteria |-> criteria, result |-> StoreEvents(db, criteria)]
  /\ UNCHANGED <<backend, db, txns, history, begun>>

\* the caller takes the settled promise and goes on
Return ==
  /\ call.op \in {"append", "events"}
  /\ call' = Idle
  /\ UNCHANGED <<backend, db, txns, history, begun>>

Next ==
  \/ /\ call.op = "idle"
     /\ \E events \in Batches, criteria \in CriteriaPool, after \in Cursors :
          AppendCall(events, criteria, after)
  \/ AwaitedStep
  \/ AppendSettles
  \/ \E criteria \in CriteriaPool : EventsCall(criteria)
  \/ Return

Spec == Init /\ [][Next]_vars

(***************************************************************************)
(* Callers of one PostgresEventStore that do not await one another.        *)
(***************************************************************************)
\* no two of these batches name the same ids in opposite orders, so no call
\* of these callers waits for one that waits for it
ConcBatches == {<<EventA>>, <<EventB>>, <<EventA, EventB>>}
\* the arguments of AppendCondition.forCriteria the callers use
ConcConditions ==
  {[criteria |-> NewEventCriteria, after |-> 0],
   [criteria |-> forTypes(NewEventCriteria, <<"T">>), after |-> 0],
   [criteria |-> forTypes(NewEventCriteria, <<"T">>), after |-> 1],
   [criteria |-> forTypes(NewEventCriteria, <<"U">>), after |-> 0],
   [criteria |-> forTags(NewEventCriteria, <<TagX>>), after |-> 0]}

InitConc ==
  /\ backend = "postgres"
  /\ db = PostgresSchema
  /\ call = Idle
  /\ txns = [c \in Clients |-> NoTxn]
  /\ history = {}
  /\ begun = 0

NextConc ==
  \E c \in Clients :
    \/ \E events \in ConcBatches, given \in ConcConditions :
         ConcAppendCall(c, events, given.criteria, given.after)
    \/ ConcBegin(c)
    \/ ConcCheck(c)
    \/ ConcInsert(c)
    \/ ConcInsertAnswered(c)
    \/ ConcCommit(c)
    \/ ConcSerializationFailure(c)
    \/ ConcRollback(c)
    \/ ConcRelease(c)

SpecConc == InitConc /\ [][NextConc]_vars

\* the filter a store compiles for a read: criteria.appliedTo(queryBuilder).build()
StoreFilter(criteria) ==
  IF backend = "sqlite" THEN SqliteBuild(applyTo(criteria, NewQueryBuilder))
  ELSE PostgresBuild(applyTo(criteria, NewQueryBuilder))

\* every statement a call has sent is answered and the call goes on to its
\* next statement: each await of append resolves or rejects
ConcStep(c) ==
  \/ ConcBegin(c)
  \/ ConcCheck(c)
  \/ ConcInsert(c)
  \/ ConcInsertAnswered(c)
  \/ ConcCommit(c)
  \/ ConcDeadlock(c)
  \/ ConcRollback(c)
  \/ ConcRelease(c)

\* the calls whose settling is followed: appends that can wait for one another's
\* ids, conditioned or not
FairBatches == {<<EventA>>, <<EventA, EventB>>, <<EventB, EventA>>}
FairConditions ==
  {[criteria |-> NewEventCriteria, after |-> 0],
   [criteria |-> forTypes(NewEventCriteria, <<"T">>), after |-> 0]}

NextConcFair ==
  \E c \in Clients :
    \/ \E events \in FairBatches, given \in FairConditions :
         ConcAppendCall(c, events, given.criteria, given.after)
    \/ ConcStep(c)
    \/ ConcSerializationFailure(c)

SpecConcFair == InitConc /\ [][NextConcFair]_vars /\ \A c \in Clients : WF_vars(ConcStep(c))

(***************************************************************************)
(* The shared suite: one SqliteEventStore and one PostgresEventStore given *)
(* the same calls with the same arguments, one call at a time.  db is the  *)
(* PostgreSQL database, with the file of the SQLite store beside it under  *)
(* sqlite.                                                                 *)
(***************************************************************************)
InitPair ==
  /\ backend = "both"
  /\ db = [events |-> PostgresSchema.events, seq |-> PostgresSchema.seq, sqlite |-> SqliteSchema]
  /\ call = Idle
  /\ txns = [c \in Clients |-> NoTxn]
  /\ history = {}
  /\ begun = 0

\* the same append on both stores: the SQLite store has run it when the call
\* returns, the PostgreSQL store goes on statement by statement
PairAppendCall(events, criteria, after) ==
  /\ call.op = "idle"
  /\ db.sqlite.seq + Len(events) <= MaxSeq
  /\ db.seq + Len(events) <= MaxSeq
  /\ LET condition == forCriteria(criteria, after)
         onSqlite == SqliteAppend(db.sqlite, events, condition)
     IN /\ db' = [db EXCEPT !.sqlite = onSqlite.db]
        /\ call' = [op |-> "pending", events |-> events, criteria |-> criteria,
                    after |-> after, sqlite |-> onSqlite.error]
        /\ txns' = [txns EXCEPT ![Caller] = NewTxn(events, condition)]
  /\ UNCHANGED <<backend, history, begun>>

\* the promise of the PostgreSQL store's append settles
PairAppendSettles ==
  /\ call.op = "pending"
  /\ txns[Caller].pc = "settled"
  /\ call' = [op |-> "append", events |-> call.events, criteria |-> call.criteria,
              after |-> call.after, sqlite |-> call.sqlite,
              postgres |-> txns[Caller].error]
  /\ txns' = [txns EXCEPT ![Caller] = NoTxn]
  /\ UNCHANGED <<backend, db, history, begun>>

PairEventsCall(criteria) ==
  /\ call.op = "idle"
  /\ call' = [op |-> "events", criteria |-> criteria,
              sqlite |-> SqliteEvents(db.sqlite, criteria),
              postgres |-> PostgresEvents([events |-> db.events, seq |-> db.seq], criteria)]
  /\ UNCHANGED <<backend, db, txns, history, begun>>

NextPair ==
  \/ /\ call.op = "idle"
     /\ \E events \in Batches, criteria \in CriteriaPool, after \in Cursors :
          PairAppendCall(events, criteria, after)
  \/ AwaitedStep
  \/ PairAppendSettles
  \/ \E criteria \in CriteriaPool : PairEventsCall(criteria)
  \/ Return

SpecPair == InitPair /\ [][NextPair]_vars

(***************************************************************************)
(* A query builder on its own: a chain of withTypes / withTags /           *)
(* afterPosition calls starting from the store's builder, then build().    *)
(* built holds the builder last compiled and the filter it gave.           *)
(***************************************************************************)
BuildTypeLists == {<<>>, <<"T">>, <<"U">>, <<"U", "T">>}
BuildTagLists == {<<>>, <<TagX>>, <<TagY>>, <<TagX, TagY>>}

StoreBuild(builder) ==
  IF backend = "sqlite" THEN SqliteBuild(builder) ELSE PostgresBuild(builder)

InitBuild ==
  /\ backend \in {"sqlite", "postgres"}
  /\ db = IF backend = "sqlite" THEN SqliteSchema ELSE PostgresSchema
  /\ call = [op |-> "builder", builder |-> NewQueryBuilder, built |-> <<>>]
  /\ txns = [c \in Clients |-> NoTxn]
  /\ history = {}
  /\ begun = 0

BuilderWithTypes(types) ==
  /\ call' = [call EXCEPT !.builder = withTypes(@, types)]
  /\ UNCHANGED <<backend, db, txns, history, begun>>

BuilderWithTags(tags) ==
  /\ call' = [call EXCEPT !.builder = withTags(@, tags)]
  /\ UNCHANGED <<backend, db, txns, history, begun>>

BuilderAfterPosition(position) ==
  /\ call' = [call EXCEPT !.builder = afterPosition(@, position)]
  /\ UNCHANGED <<backend, db, txns, history, begun>>

BuilderBuild ==
  /\ call' = [call EXCEPT !.built = <<[from |-> call.builder, filter |-> StoreBuild(call.builder)]>>]
  /\ UNCHANGED <<backend, db, txns, history, begun>>

NextBuild ==
  \/ \E types \in BuildTypeLists : BuilderWithTypes(types)
  \/ \E tags \in BuildTagLists : BuilderWithTags(tags)
  \/ \E position \in Cursors : BuilderAfterPosition(position)
  \/ BuilderBuild

SpecBuild == InitBuild /\ [][NextBuild]_vars

(***************************************************************************)
(* Vocabulary of the properties: the log as the tables hold it.            *)
(***************************************************************************)
\* the tags stored for a row of events
StoredTags(database, row) ==
  IF backend = "sqlite"
  THEN {t.tag : t \in {u \in database.event_tags : u.event_position = row.position}}
  ELSE Range(row.tags)

\* the criteria read as two sets: any listed type, all listed tags
Matches(database, row, criteria) ==
  /\ criteria.types = <<>> \/ row.type \in Range(criteria.types)
  /\ Range(criteria.tags) \subseteq StoredTags(database, row)

Positions(database) == {r.position : r \in database.events}

\* the step in which the promise of an append call settles; call'.before is
\* the log the call was made on, db' the log it leaves
AppendStep == call.op # "append" /\ call'.op = "append"

Failed(error) == error \notin {"none", "AppendConditionError"}

SameLog(before, after) ==
  /\ after.events = before.events
  /\ backend = "sqlite" => after.event_tags = before.event_tags
  /\ StoreEvents(after, NewEventCriteria) = StoreEvents(before, NewEventCriteria)

(***************************************************************************)
(* C1: an append with a non-empty condition (C, P) is rejected exactly     *)
(* when the log it runs on holds an event matching C at a position > P.    *)
(***************************************************************************)
C1_RejectsIffMatchAfterCursor ==
  [][AppendStep /\ ~ConditionIsEmpty(call'.condition) =>
       (call'.error = "AppendConditionError" <=>
          \E r \in call'.before.events :
            /\ Matches(call'.before, r, call'.condition.criteria)
            /\ r.position > call'.condition.after)]_vars

\* a condition with cursor 1 accepted although the event at position 1 matches
C1_Witness ==
  /\ call.op = "append" /\ call.error = "none" /\ call.condition.after = 1
  /\ call.events # <<>>
  /\ \E r \in db.events : r.position = 1 /\ Matches(db, r, call.condition.criteria)

(***************************************************************************)
(* C2: of two concurrent appends whose conditions both held on the state   *)
(* before either committed and that each insert an event the other's       *)
(* condition selects, at most one commits; a transaction that ends with an *)
(* error leaves the committed rows as they were, and rows only ever enter  *)
(* the log by the COMMIT of the transaction that inserted them.            *)
(***************************************************************************)
Committed(c) == txns[c].pc \in {"release", "settled"} /\ txns[c].error = "none"

\* a's check ran, and b inserted a row a's snapshot lacks and a's condition selects
Overlooked(a, b) ==
  /\ txns[a].read
  /\ \E w \in txns[b].writes :
       /\ w \notin txns[a].snapshot
       /\ Matches(db, w, txns[a].condition.criteria)
       /\ w.position > txns[a].condition.after

C2_AtMostOneCommits ==
  /\ [](\A a, b \in Clients :
          a # b /\ Committed(a) /\ Committed(b) => ~(Overlooked(a, b) /\ Overlooked(b, a)))
  /\ [][\A c \in Clients :
          txns'[c] # txns[c] =>
            IF txns[c].pc = "commit" /\ txns'[c].error = "none"
            THEN db'.events = db.events \cup txns[c].writes
            ELSE db'.events = db.events]_vars

\* one of the two has committed, the other's COMMIT failed with 40001
C2_Witness ==
  \E a, b \in Clients :
    /\ a # b /\ Committed(a)
    /\ txns[b].pc = "rollback" /\ txns[b].error = "40001"
    /\ ~ConditionIsEmpty(txns[a].condition) /\ ~ConditionIsEmpty(txns[b].condition)
    /\ Overlooked(a, b) /\ Overlooked(b, a)
    /\ ClosesCycle(txns[b])

(***************************************************************************)
(* C3: an append rejected for its condition inserts no event and no tag    *)
(* row, and the full read is the same before and after it.                 *)
(***************************************************************************)
C3_RejectedAppendChangesNothing ==
  [][AppendStep /\ call'.error = "AppendConditionError" => SameLog(call'.before, db')]_vars

C3_Witness ==
  /\ call.op = "append" /\ call.error = "AppendConditionError"
  /\ Len(call.events) = MaxBatch /\ db.events # {}

(***************************************************************************)
(* C4: when an insert of an append call fails, none of the call's events   *)
(* and none of their tags are in the log afterwards.                       *)
(***************************************************************************)
C4_FailedAppendInsertsNothing ==
  [][AppendStep /\ Failed(call'.error) => SameLog(call'.before, db')]_vars

\* the second event of a call fails after the first was inserted
C4_Witness ==
  /\ call.op = "append" /\ Failed(call.error)
  /\ Len(call.events) = 2 /\ call.events[1].id # call.events[2].id
  /\ \A r \in db.events : NoCase(r.id) # NoCase(call.events[1].id)

(***************************************************************************)
(* C5: an append whose condition is empty (forCriteria on an empty         *)
(* criteria, whatever the cursor) is never rejected for its condition.     *)
(***************************************************************************)
C5_EmptyConditionNeverRejects ==
  call.op = "append" /\ ConditionIsEmpty(call.condition) => call.error # "AppendConditionError"

\* an empty criteria with a cursor, on a log that already held events
C5_Witness ==
  /\ call.op = "append" /\ CriteriaIsEmpty(call.criteria) /\ call.after > 0
  /\ call.error = "none" /\ call.events # <<>>
  /\ Cardinality(db.events) > Len(call.events)

(***************************************************************************)
(* C6: the log holds events at exactly the positions 1..N, N the number of *)
(* events appended by the successful calls: no gaps, no repeats.           *)
(***************************************************************************)
C6_PositionsContiguous == Positions(db) = 1 .. Cardinality(db.events)

(***************************************************************************)
(* C7: a committed event stays in the log at its position with the same    *)
(* id, type, payload and tags, and every read that returned it returns it  *)
(* again, whatever appends happen; no two events share a position.         *)
(***************************************************************************)
C7_CommittedEventsPersist ==
  [][db' # db =>
       /\ db.events \subseteq db'.events
       /\ backend = "sqlite" =>
            \A r \in db.events : StoredTags(db', r) = StoredTags(db, r)
       /\ \A c \in CriteriaPool : Range(StoreEvents(db, c)) \subseteq Range(StoreEvents(db', c))
       /\ \A r1, r2 \in db'.events : r1.position = r2.position => r1 = r2]_vars

\* a failed append on a log that holds events
C7_Witness ==
  /\ call.op = "append" /\ Failed(call.error) /\ Cardinality(db.events) >= 2

(***************************************************************************)
(* C8: a successful append of [e1..ek] on a log of length n stores ei at   *)
(* position n + i.                                                         *)
(***************************************************************************)
C8_BatchAtNextPositions ==
  [][AppendStep /\ call'.error = "none" =>
       \A i \in 1 .. Len(call'.events) :
         \E r \in db'.events \ call'.before.events :
           r.id = call'.events[i].id /\ r.position = Cardinality(call'.before.events) + i]_vars

(***************************************************************************)
(* C9: events(criteria) returns exactly the events of the log that match   *)
(* the criteria, each once, in ascending order of position.                *)
(***************************************************************************)
C9_ReadReturnsExactlyMatching ==
  call.op = "events" =>
    /\ \A i, j \in 1 .. Len(call.result) : i < j => call.result[i].position < call.result[j].position
    /\ {[id |-> e.id, position |-> e.position, type |-> e.type] : e \in Range(call.result)}
         = {[id |-> r.id, position |-> r.position, type |-> r.type] :
              r \in {x \in db.events : Matches(db, x, call.criteria)}}

\* a read by type and tags that returns some events of the log and not others
C9_Witness ==
  /\ call.op = "events" /\ call.criteria.types # <<>> /\ call.criteria.tags # <<>>
  /\ Len(call.result) >= 1 /\ Cardinality(db.events) > Len(call.result)

(***************************************************************************)
(* C10: for a condition on the tag set G alone, cursor 0, the append is    *)
(* rejected exactly when an existing event carries every tag of G; extra   *)
(* tags do not matter and a partial overlap is no match.                   *)
(***************************************************************************)
C10_TagsAreContained ==
  [][/\ AppendStep /\ ~ConditionIsEmpty(call'.condition)
     /\ call'.condition.criteria.types = <<>> /\ call'.condition.after = 0
     => (call'.error = "AppendConditionError" <=>
           \E r \in call'.before.events :
             Range(call'.condition.criteria.tags) \subseteq StoredTags(call'.before, r))]_vars

\* not rejected although an earlier event carries one of the two tags
C10_Witness ==
  /\ call.op = "append" /\ call.error = "none"
  /\ call.condition.criteria.types = <<>> /\ call.condition.after = 0
  /\ Len(call.condition.criteria.tags) = 2
  /\ \E r \in db.events :
       /\ r.id \notin {e.id : e \in Range(call.events)}
       /\ StoredTags(db, r) \cap Range(call.condition.criteria.tags) # {}

(***************************************************************************)
(* C11: for a criteria with no types and no tags the compiled filter has   *)
(* no predicate and no bound value, and events() returns every event of    *)
(* the log.                                                                *)
(***************************************************************************)
C11_EmptyCriteriaReadsAll ==
  call.op = "events" /\ CriteriaIsEmpty(call.criteria) =>
    /\ StoreFilter(call.criteria).text = <<>>
    /\ StoreFilter(call.criteria).values = <<>>
    /\ Len(call.result) = Cardinality(db.events)
    /\ {e.position : e \in Range(call.result)} = Positions(db)

\* the full read of a log that holds a tagged event and an event with no tag
C11_Witness ==
  /\ call.op = "events" /\ CriteriaIsEmpty(call.criteria)
  /\ Len(call.result) >= 2
  /\ \E e \in Range(call.result) : e.tags = <<>>
  /\ \E e \in Range(call.result) : e.tags # <<>>

(***************************************************************************)
(* C12: given the same calls, the SQLite store and the PostgreSQL store    *)
(* give the same accept / reject / fail result for each append and the     *)
(* same events, positions and tag sets for each read.                      *)
(***************************************************************************)
Outcome(error) ==
  CASE error = "none" -> "accept"
    [] error = "AppendConditionError" -> "reject"
    [] OTHER -> "fail"

Observed(result) ==
  [i \in 1 .. Len(result) |->
     [id |-> result[i].id, position |-> result[i].position, type |-> result[i].type,
      payload |-> result[i].payload, tags |-> Range(result[i].tags)]]

C12_StoresAgree ==
  /\ call.op = "append" => Outcome(call.sqlite) = Outcome(call.postgres)
  /\ call.op = "events" => Observed(call.sqlite) = Observed(call.postgres)

(***************************************************************************)
(* C13: the check and the inserts of an append run in one transaction, so  *)
(* that an append commits only if no other append has committed, since its *)
(* check ran, an event its condition selects.                              *)
(***************************************************************************)
C13_NoCommitBetweenCheckAndInserts ==
  [][\A c \in Clients :
       txns[c].pc = "commit" /\ txns'[c].pc = "release" /\ txns[c].read =>
         ~\E r \in db.events \ txns[c].snapshot :
             /\ Matches(db, r, txns[c].condition.criteria)
             /\ r.position > txns[c].condition.after]_vars

(***************************************************************************)
(* C15: the error of a rejected append carries the attempted events and    *)
(* the violated condition: no other events or condition of the callers     *)
(* would have produced the same error.                                     *)
(***************************************************************************)
C15_ErrorCarriesEventsAndCondition ==
  call.op = "append" /\ call.error = "AppendConditionError" =>
    \A events \in Batches, criteria \in CriteriaPool, after \in Cursors :
      AppendConditionError(forCriteria(criteria, after), events) = call.thrown =>
        events = call.events /\ forCriteria(criteria, after) = call.condition

(***************************************************************************)
(* C16: the filter text depends only on how many types and tags the        *)
(* builder holds and on whether the cursor is non-zero: two compilations   *)
(* that differ only in the values give the same text.                      *)
(***************************************************************************)
Shape(builder) ==
  [types |-> Len(builder.types), tags |-> Len(builder.tags), cursor |-> builder.after # 0]

C16_TextIndependentOfValues ==
  [][Len(call.built) = 1 /\ Len(call'.built) = 1
     /\ Shape(call.built[1].from) = Shape(call'.built[1].from)
     => call'.built[1].filter.text = call.built[1].filter.text]_vars

\* a filter with all three clauses, compiled from a builder whose type names,
\* tag values and cursor all differ from those of the builder it then holds
C16_Witness ==
  /\ Len(call.built) = 1
  /\ Shape(call.built[1].from) = Shape(call.builder)
  /\ Len(call.builder.types) = 1 /\ Len(call.builder.tags) = 1 /\ call.builder.after # 0
  /\ call.built[1].from.types # call.builder.types
  /\ call.built[1].from.tags # call.builder.tags
  /\ call.built[1].from.after # call.builder.after
  /\ call.built[1].filter.text = StoreBuild(call.builder).text

(***************************************************************************)
(* C17: no two events of the log have ids that are equal ignoring letter   *)
(* case.                                                                   *)
(***************************************************************************)
C17_IdsUniqueIgnoringCase ==
  \A r1, r2 \in db.events : NoCase(r1.id) = NoCase(r2.id) => r1 = r2

(***************************************************************************)
(* C18: every event of a successful append is returned by events() with    *)
(* the same id, type and payload and with a tag list that has no           *)
(* duplicates and, as a set, equals the tags given; no tags come back as   *)
(* the empty list.                                                         *)
(***************************************************************************)
NoDuplicates(list) == Cardinality(Range(list)) = Len(list)

C18_AppendReadRoundTrip ==
  [][AppendStep /\ call'.error = "none" =>
       \A i \in 1 .. Len(call'.events) :
         \E e \in Range(StoreEvents(db', NewEventCriteria)) :
           /\ e.id = call'.events[i].id
           /\ e.type = call'.events[i].type
           /\ e.payload = call'.events[i].payload
           /\ Range(e.tags) = Range(call'.events[i].tags)
           /\ NoDuplicates(e.tags)
           /\ call'.events[i].tags = <<>> => e.tags = <<>>]_vars

(***************************************************************************)
(* C19: a condition is empty exactly when its criteria has no types and no *)
(* tags; forCriteria on an empty criteria gives cursor 0 whatever cursor   *)
(* was passed; an empty condition never rejects.                           *)
(***************************************************************************)
C19_EmptyIffNoTypesNoTags ==
  call.op = "append" =>
    /\ ConditionIsEmpty(call.condition) <=>
         (call.condition.criteria.types = <<>> /\ call.condition.criteria.tags = <<>>)
    /\ (call.criteria.types = <<>> /\ call.criteria.tags = <<>>) =>
         ConditionIsEmpty(call.condition) /\ call.condition.after = 0
    /\ (call.criteria.types # <<>> \/ call.criteria.tags # <<>>) =>
         /\ ~ConditionIsEmpty(call.condition)
         /\ call.condition.criteria = call.criteria /\ call.condition.after = call.after
    /\ ConditionIsEmpty(call.condition) => call.error # "AppendConditionError"

\* forCriteria(empty criteria, largest cursor) on a log with events past no cursor
C19_Witness ==
  /\ call.op = "append" /\ CriteriaIsEmpty(call.criteria)
  /\ call.after = MaxSeq - 1 /\ call.condition.after = 0
  /\ db.events # {} /\ call.error = "none"

(***************************************************************************)
(* C20: in a built filter the placeholders of the text are as many as the  *)
(* bound values, and the i-th placeholder in text order is bound to the    *)
(* i-th value, in the order types, tags, cursor.  SQLite: one '?' per      *)
(* type, per tag and for the cursor.  PostgreSQL: $1, $2, ... without      *)
(* gaps, one per clause.                                                   *)
(***************************************************************************)
\* the '?' of each clause paired, in text order, with the values it binds
RECURSIVE SqliteBindings(_, _)
SqliteBindings(text, values) ==
  IF text = <<>> THEN <<>>
  ELSE LET n == Head(text).params
       IN <<[sql |-> Head(text).sql,
             bound |-> [i \in 1 .. n |-> IF i <= Len(values) THEN values[i] ELSE "unbound"]]>>
            \o SqliteBindings(Tail(text), SubSeq(values, n + 1, Len(values)))

RECURSIVE Placeholders(_)
Placeholders(text) == IF text = <<>> THEN 0 ELSE Head(text).params + Placeholders(Tail(text))

SqliteExpectedBindings(builder) ==
  (IF builder.types # <<>>
   THEN <<[sql |-> "events.type IN (?..)", bound |-> builder.types]>> ELSE <<>>)
  \o [i \in 1 .. Len(builder.tags) |->
        [sql |-> "EXISTS (SELECT 1 FROM event_tags WHERE event_position = events.position AND tag = ?)",
         bound |-> <<builder.tags[i]>>]]
  \o (IF builder.after # 0
      THEN <<[sql |-> "events.position > ?", bound |-> <<builder.after>>]>> ELSE <<>>)

PostgresExpectedBindings(builder) ==
  (IF builder.types # <<>> THEN <<[sql |-> "type = ANY($n)", bound |-> builder.types]>> ELSE <<>>)
  \o (IF builder.tags # <<>> THEN <<[sql |-> "tags @> $n", bound |-> builder.tags]>> ELSE <<>>)
  \o (IF builder.after # 0 THEN <<[sql |-> "position > $n", bound |-> builder.after]>> ELSE <<>>)

C20_PlaceholdersMatchValues ==
  call.op = "builder" /\ Len(call.built) = 1 =>
    LET from == call.built[1].from
        text == call.built[1].filter.text
        values == call.built[1].filter.values
    IN IF backend = "sqlite"
       THEN /\ Placeholders(text) = Len(values)
            /\ SqliteBindings(text, values) = SqliteExpectedBindings(from)
       ELSE /\ Len(text) = Len(values)
            /\ \A i \in 1 .. Len(text) : text[i].param = i
            /\ [i \in 1 .. Len(text) |-> [sql |-> text[i].sql, bound |-> values[text[i].param]]]
                 = PostgresExpectedBindings(from)

\* a filter with two types, two tags and a cursor
C20_Witness ==
  /\ call.op = "builder" /\ Len(call.built) = 1
  /\ Len(call.built[1].from.types) = 2 /\ Len(call.built[1].from.tags) = 2
  /\ call.built[1].from.after # 0
  /\ Len(call.built[1].filter.values) >= 3

(***************************************************************************)
(* C21: build() emits a clause exactly for each component that is present, *)
(* joined by AND under one WHERE; with nothing present the text is empty   *)
(* and binds no value; every clause binds a value that restricts, and no   *)
(* AND stands first, last or next to another AND.                          *)
(***************************************************************************)
ClauseSqls ==
  {"events.type IN (?..)",
   "EXISTS (SELECT 1 FROM event_tags WHERE event_position = events.position AND tag = ?)",
   "events.position > ?", "type = ANY($n)", "tags @> $n", "position > $n"}

PresentClauses(builder) ==
  IF backend = "sqlite"
  THEN (IF builder.types # <<>> THEN 1 ELSE 0) + Len(builder.tags) + (IF builder.after # 0 THEN 1 ELSE 0)
  ELSE (IF builder.types # <<>> THEN 1 ELSE 0) + (IF builder.tags # <<>> THEN 1 ELSE 0)
         + (IF builder.after # 0 THEN 1 ELSE 0)

PresentSqls(builder) ==
  IF backend = "sqlite"
  THEN (IF builder.types # <<>> THEN {"events.type IN (?..)"} ELSE {})
         \cup (IF builder.tags # <<>>
               THEN {"EXISTS (SELECT 1 FROM event_tags WHERE event_position = events.position AND tag = ?)"}
               ELSE {})
         \cup (IF builder.after # 0 THEN {"events.position > ?"} ELSE {})
  ELSE (IF builder.types # <<>> THEN {"type = ANY($n)"} ELSE {})
         \cup (IF builder.tags # <<>> THEN {"tags @> $n"} ELSE {})
         \cup (IF builder.after # 0 THEN {"position > $n"} ELSE {})

C21_OnlyPresentClauses ==
  call.op = "builder" /\ Len(call.built) = 1 =>
    LET from == call.built[1].from
        text == call.built[1].filter.text
        values == call.built[1].filter.values
        words == WhereText(text)
    IN /\ Len(text) = PresentClauses(from)
       /\ PresentClauses(from) = 0 => text = <<>> /\ values = <<>> /\ words = <<>>
       /\ {text[i].sql : i \in 1 .. Len(text)} = PresentSqls(from)
       /\ \A i \in 1 .. Len(text) :
            IF backend = "sqlite" THEN text[i].params >= 1 ELSE text[i].param \in 1 .. Len(values)
       /\ text # <<>> =>
            /\ Len(words) = 2 * Len(text)
            /\ words[1] = "WHERE"
            /\ \A i \in 2 .. Len(words) :
                 IF i % 2 = 0 THEN words[i] \in ClauseSqls ELSE words[i] = "AND"

\* the empty filter of the store's own builder, compiled before the chain set every component
C21_Witness ==
  /\ call.op = "builder" /\ Len(call.built) = 1
  /\ call.built[1].from = NewQueryBuilder
  /\ call.built[1].filter.text = <<>>
  /\ call.builder.types # <<>> /\ call.builder.tags # <<>> /\ call.builder.after # 0

(***************************************************************************)
(* C22: an append resolves only if every one of its events was committed;  *)
(* once its check, an insert or its COMMIT has failed, the error stays     *)
(* with the call until the promise settles with it.                        *)
(***************************************************************************)
C22_ResolvesOnlyIfCommitted ==
  /\ [](\A c \in Clients :
          txns[c].pc \in {"release", "settled"} /\ txns[c].error = "none" =>
            /\ Cardinality(txns[c].writes) = Len(txns[c].events)
            /\ txns[c].writes \subseteq db.events
            /\ \A i \in 1 .. Len(txns[c].events) :
                 \E r \in txns[c].writes : r.id = txns[c].events[i].id)
  /\ [][\A c \in Clients :
          txns[c].pc # "idle" /\ txns[c].error # "none" /\ txns[c].pc # "settled" =>
            txns'[c].error = txns[c].error]_vars

\* one call settled with the error of its failed COMMIT, the other resolved
\* with both of its events committed
C22_Witness ==
  \E a, b \in Clients :
    /\ txns[a].pc = "settled" /\ txns[a].error = "40001" /\ txns[a].todo = <<>>
    /\ txns[b].pc = "settled" /\ txns[b].error = "none" /\ Len(txns[b].events) = 2

(***************************************************************************)
(* C23: repeating on a criteria a forTypes or forTags call it has already  *)
(* received, or adding one type or tag it already holds, changes neither   *)
(* the result of events() nor the outcome of an append conditioned on it.  *)
(***************************************************************************)
Repeats(criteria) ==
  {forTypes(criteria, criteria.types), forTags(criteria, criteria.tags),
   forTags(forTypes(criteria, criteria.types), criteria.tags)}
    \cup {forTypes(criteria, <<t>>) : t \in Range(criteria.types)}
    \cup {forTags(criteria, <<g>>) : g \in Range(criteria.tags)}

C23_RepeatedEntriesChangeNothing ==
  [][/\ call.op = "idle" /\ call'.op = "events" =>
          \A again \in Repeats(call'.criteria) : StoreEvents(db, again) = call'.result
     /\ AppendStep =>
          \A again \in Repeats(call'.criteria) :
            LET redone == StoreAppend(call'.before, call'.events, forCriteria(again, call'.after))
            IN redone.error = call'.error /\ redone.db = db']_vars

\* a read by two types and two tags that returns some events and not others
C23_Witness ==
  /\ call.op = "events" /\ Len(call.criteria.types) = 2 /\ Len(call.criteria.tags) = 2
  /\ Len(call.result) = 1 /\ Cardinality(db.events) = MaxSeq
  /\ Cardinality(Repeats(call.criteria)) = 7

(***************************************************************************)
(* C24: the order in which types and tags were added to a criteria, and    *)
(* the order of forTypes and forTags, change neither the result of         *)
(* events() nor the outcome of an append conditioned on it.                *)
(***************************************************************************)
Orderings(list) == {p \in [1 .. Len(list) -> Range(list)] : Range(p) = Range(list)}

Reorderings(criteria) ==
  {forTypes(forTags(NewEventCriteria, tags), types) :
     types \in Orderings(criteria.types), tags \in Orderings(criteria.tags)}

C24_OrderOfEntriesChangesNothing ==
  [][/\ call.op = "idle" /\ call'.op = "events" =>
          \A other \in Reorderings(call'.criteria) : StoreEvents(db, other) = call'.result
     /\ AppendStep =>
          \A other \in Reorderings(call'.criteria) :
            LET redone == StoreAppend(call'.before, call'.events, forCriteria(other, call'.after))
            IN redone.error = call'.error /\ redone.db = db']_vars

\* an append rejected for a condition on two types and two tags, which has
\* four orderings
C24_Witness ==
  /\ call.op = "append" /\ call.error = "AppendConditionError"
  /\ Len(call.criteria.types) = 2 /\ Len(call.criteria.tags) = 2
  /\ Cardinality(Reorderings(call.criteria)) = 4

(***************************************************************************)
(* C25: an append call begins at most one transaction and settles: a       *)
(* serialization failure is surfaced to the caller, never retried.         *)
(***************************************************************************)
C25_OneAttemptThenSettles ==
  /\ [](\A c \in Clients : txns[c].pc # "idle" => txns[c].attempts <= 1)
  /\ \A c \in Clients : (txns[c].pc \notin {"idle", "settled"}) ~> (txns[c].pc = "settled")

\* a call settled with a serialization failure after its one transaction,
\* while the other call is still in its transaction
C25_Witness ==
  \E a, b \in Clients :
    /\ txns[a].pc = "settled" /\ txns[a].error = "40001" /\ txns[a].attempts = 1
    /\ txns[b].pc \in {"insert", "commit"}

(***************************************************************************)
(* A caller whose events may carry the empty string as their type:         *)
(* DomainEvent declares type: string and nothing more.                     *)
(***************************************************************************)
EventNoType == [id |-> "e", type |-> "", payload |-> "obj", tags |-> <<TagX>>]

UntypedBatches == {<<EventNoType>>, <<EventA>>, <<EventA, EventNoType>>, <<EventNoType, EventD>>}

NextUntyped ==
  \/ /\ call.op = "idle"
     /\ \E events \in UntypedBatches, criteria \in CriteriaPool, after \in Cursors :
          AppendCall(events, criteria, after)
  \/ AwaitedStep
  \/ AppendSettles
  \/ \E criteria \in CriteriaPool : EventsCall(criteria)
  \/ Return

SpecUntyped == Init /\ [][NextUntyped]_vars

\* C26: every event in the log has a non-empty type; append never stores an
\* event whose type is the empty string
C26_TypeNonEmpty == \A r \in db.events : r.type # ""

(***************************************************************************)
(* Reads among the concurrent appends: events() sends one SELECT through   *)
(* the pool, outside any transaction of append, and the last answer is     *)
(* kept in call.                                                           *)
(***************************************************************************)
\* variant: the SELECT sees the rows open transactions have inserted
DirtyRows == db.events \cup UncommittedOf(Clients)

\* the rows a statement outside a transaction sees: those committed when it runs
CommittedRows == db.events

\* no two of these batches name the same ids in opposite orders
ReadBatches == {<<EventA>>, <<EventB>>, <<EventA, EventB>>}
ReadConditions ==
  {[criteria |-> NewEventCriteria, after |-> 0],
   [criteria |-> forTypes(NewEventCriteria, <<"T">>), after |-> 0]}
ReadCriteria == {NewEventCriteria, forTypes(NewEventCriteria, <<"T">>)}

\* store.events(criteria) while appends are in flight
ConcEventsCall(criteria) ==
  /\ backend = "postgres"
  /\ call' = [op |-> "events", criteria |-> criteria,
              result |-> PostgresEvents([events |-> CommittedRows, seq |-> db.seq], criteria)]
  /\ UNCHANGED <<backend, db, txns, history, begun>>

NextConcRead ==
  \/ \E c \in Clients :
       \/ \E events \in ReadBatches, given \in ReadConditions :
            ConcAppendCall(c, events, given.criteria, given.after)
       \/ ConcBegin(c)
       \/ ConcCheck(c)
       \/ ConcInsert(c)
       \/ ConcInsertAnswered(c)
       \/ ConcCommit(c)
       \/ ConcSerializationFailure(c)
       \/ ConcRollback(c)
       \/ ConcRelease(c)
  \/ \E criteria \in ReadCriteria : ConcEventsCall(criteria)

SpecConcRead == InitConc /\ [][NextConcRead]_vars

\* C27: events become visible in position order even when appends run
\* concurrently: once an events() call has returned an event at position p, no
\* event with a smaller position becomes visible; every event the log shows
\* that the last read selects and did not return lies after all it returned
C27_VisibleInPositionOrder ==
  call.op = "events" =>
    \A r \in db.events :
      (Matches(db, r, call.criteria) /\ \A i \in 1 .. Len(call.result) : call.result[i].position # r.position)
        => \A i \in 1 .. Len(call.result) : call.result[i].position < r.position

\* the rows of client c's append that the last read returned
ReturnedOf(c) ==
  {r \in txns[c].writes : \E i \in 1 .. Len(call.result) : call.result[i].position = r.position}

\* C29: an events() call that runs while an append of several events is in
\* flight returns all of that append's events that match its criteria or none
\* of them, and it returns events of committed appends only, never those of an
\* append that rolls back
C29_ReadSeesAllOrNone ==
  [][\A criteria \in ReadCriteria :
       ConcEventsCall(criteria) =>
         \A c \in Clients :
           txns[c].pc # "idle" =>
             LET got == {r \in txns[c].writes :
                           \E i \in 1 .. Len(call'.result) : call'.result[i].position = r.position}
             IN /\ got \in {{}, {r \in txns[c].writes : Matches(db, r, criteria)}}
                /\ got # {} => Committed(c) /\ Cardinality(txns[c].writes) = Len(txns[c].events)]_vars

\* an append of two events has inserted the first; a read that ran after that
\* insert returned the event another append inserted and committed later, and
\* none of the half-done append
C29_Witness ==
  /\ call.op = "events"
  /\ \E c \in Clients :
       /\ txns[c].pc = "insert" /\ Len(txns[c].events) = 2 /\ Cardinality(txns[c].writes) = 1
       /\ ReturnedOf(c) = {}
       /\ \E o \in Clients \ {c} :
            /\ Committed(o) /\ ReturnedOf(o) # {}
            /\ \A r \in txns[c].writes, s \in ReturnedOf(o) : r.position < s.position

\* C28: the type clause and the tag clauses must be satisfied by one and the
\* same event: a condition whose criteria has both types and tags rejects the
\* append exactly when a single event after the cursor has a listed type and
\* all listed tags, and a read with such criteria returns exactly those events;
\* a listed type on one event and the listed tags on another trigger nothing
C28_OneEventSatisfiesBoth ==
  [][/\ (AppendStep /\ call'.criteria.types # <<>> /\ call'.criteria.tags # <<>>) =>
          (call'.error = "AppendConditionError" <=>
             \E r \in call'.before.events :
               /\ r.position > call'.after
               /\ r.type \in Range(call'.criteria.types)
               /\ Range(call'.criteria.tags) \subseteq StoredTags(call'.before, r))
     /\ (call.op = "idle" /\ call'.op = "events"
           /\ call'.criteria.types # <<>> /\ call'.criteria.tags # <<>>) =>
          {call'.result[i].position : i \in 1 .. Len(call'.result)} =
            {r.position : r \in {s \in db.events :
               /\ s.type \in Range(call'.criteria.types)
               /\ Range(call'.criteria.tags) \subseteq StoredTags(db, s)}}]_vars

\* the log holds an event with a listed type and another event with the listed
\* tags, none with both, and the append under that condition went through
C28_Witness ==
  /\ call.op = "append" /\ call.error = "none" /\ call.events # <<>>
  /\ call.criteria.types = <<"T">> /\ call.criteria.tags = <<TagX, TagY>>
  /\ call.after = 0
  /\ \E r, s \in db.events :
       /\ r.position < s.position
       /\ \A e \in Range(call.events) : e.id \notin {r.id, s.id}
       /\ r.type = "T" /\ ~(Range(call.criteria.tags) \subseteq StoredTags(db, r))
       /\ s.type # "T" /\ Range(call.criteria.tags) \subseteq StoredTags(db, s)

\* the event, as given to append, has a listed type (if any is listed) and all
\* listed tags
EventMatches(event, criteria) ==
  /\ criteria.types = <<>> \/ event.type \in Range(criteria.types)
  /\ Range(criteria.tags) \subseteq Range(event.tags)

\* C30: stale cursors are detected across sequential appends.  For criteria C
\* with types or tags and a cursor P up to which the log was observed, with no
\* event matching C after P: the first append under (C, P) of an event matching
\* C is not rejected for its condition and, once through, leaves a matching
\* event after P; from then on every append under (C, P) is rejected, and an
\* append under (C, P') goes through only if P' is at or beyond the position of
\* every event matching C
C30_StaleCursorDetected ==
  [][(AppendStep /\ ~CriteriaIsEmpty(call'.criteria)) =>
       /\ (/\ call'.after \in {0} \cup Positions(call'.before)
           /\ \E i \in 1 .. Len(call'.events) : EventMatches(call'.events[i], call'.criteria)
           /\ ~\E r \in call'.before.events :
                 Matches(call'.before, r, call'.criteria) /\ r.position > call'.after)
            => /\ call'.error # "AppendConditionError"
               /\ call'.error = "none" =>
                    \E r \in db'.events \ call'.before.events :
                      Matches(db', r, call'.criteria) /\ r.position > call'.after
       /\ (\E r \in call'.before.events :
             Matches(call'.before, r, call'.criteria) /\ r.position > call'.after)
            => call'.error = "AppendConditionError"
       /\ call'.error = "none" =>
            \A r \in call'.before.events :
              Matches(call'.before, r, call'.criteria) => r.position <= call'.after]_vars

\* the second caller's append under (C, P) was rejected: P is a position of the
\* log, the one event matching C after P is the first caller's, and the
\* rejected events match C too
C30_Witness ==
  /\ call.op = "append" /\ call.error = "AppendConditionError"
  /\ call.after \in Positions(db)
  /\ \E i \in 1 .. Len(call.events) : EventMatches(call.events[i], call.criteria)
  /\ Cardinality({r \in db.events : Matches(db, r, call.criteria) /\ r.position > call.after}) = 1

\* C31: the condition check of an append considers only the events in the log
\* when the check runs; the events the call itself appends never cause its
\* rejection, even when they match the criteria and get positions after the
\* cursor: with no matching event after the cursor in the log before the call,
\* a call whose own events match is not rejected for its condition
C31_OwnEventsNeverReject ==
  [][(/\ AppendStep /\ ~CriteriaIsEmpty(call'.criteria)
      /\ \E i \in 1 .. Len(call'.events) : EventMatches(call'.events[i], call'.criteria)
      /\ ~\E r \in call'.before.events :
            Matches(call'.before, r, call'.criteria) /\ r.position > call'.after)
       => call'.error # "AppendConditionError"]_vars

\* an append of two events went through; both match its criteria and both
\* were stored after its cursor, which is a position of the log
C31_Witness ==
  /\ call.op = "append" /\ call.error = "none" /\ Len(call.events) = 2
  /\ ~CriteriaIsEmpty(call.criteria)
  /\ call.after \in Positions(db)
  /\ \A i \in 1 .. 2 :
       \E r \in db.events :
         /\ r.id = call.events[i].id
         /\ Matches(db, r, call.criteria) /\ r.position > call.after

(***************************************************************************)
(* withOptimisticLock on connections that can break: pool.connect() may    *)
(* reject, and any statement sent on the pooled client may be answered     *)
(* with a connection error, ROLLBACK included.                             *)
(***************************************************************************)
\* variant: no .catch on ROLLBACK, its error replaces the one being rethrown
ConcRollbackFailsThrows(c) ==
  /\ txns[c].pc = "rollback"
  /\ txns' = [txns EXCEPT ![c].pc = "release", ![c].writes = {}, ![c].error = "08006",
                          ![c].sent = Append(@, "ROLLBACK")]
  /\ UNCHANGED <<backend, db, call, history, begun>>

\* client.query('ROLLBACK').catch(() => {}): ROLLBACK is rejected, the
\* rejection is dropped and the caught error is rethrown
ConcRollbackFails(c) ==
  /\ txns[c].pc = "rollback"
  /\ txns' = [txns EXCEPT ![c].pc = "release", ![c].writes = {}, ![c].swallowed = "08006",
                          ![c].sent = Append(@, "ROLLBACK")]
  /\ UNCHANGED <<backend, db, call, history, begun>>

\* an await of client.query rejects with a connection error: at BEGIN, the
\* SELECT of the check, an INSERT or COMMIT, the connection ended before the
\* statement reached the server (ran = FALSE) or after the server ran it and
\* before its answer arrived (ran = TRUE); or it ended while a sent INSERT
\* waited.  An INSERT the server received keeps the sequence value it took and
\* a COMMIT the server ran stays committed although the call is told of an
\* error.  A backend whose INSERT waits for another transaction is left
\* behind with its transaction open; any other backend finds its connection
\* gone and aborts its transaction
ConcConnectionFailure(c) ==
  /\ txns[c].pc \in {"begin", "check", "insert", "waiting", "commit"}
  /\ txns[c].pc = "check" => ~ConditionIsEmpty(txns[c].condition)
  /\ \E ran \in BOOLEAN :
       LET txn == txns[c]
           committed == /\ ran
                        /\ txn.pc = "commit"
                        /\ ~(IsolationLevel = "SERIALIZABLE" /\ ClosesCycle(txn))
           blocked == \/ txn.pc = "waiting"
                      \/ /\ ran
                         /\ txn.pc = "insert"
                         /\ \E r \in UncommittedOf(Clients \ {c}) : r.id = Head(txn.todo).id
           left == IF blocked THEN {[writes |-> txn.writes, waits |-> Head(txn.todo).id]}
                   ELSE {}
       IN /\ db' = [db EXCEPT !.seq = IF ran /\ txn.pc = "insert" THEN @ + 1 ELSE @,
                              !.events = IF committed THEN @ \cup txn.writes ELSE @]
          /\ history' = IF committed THEN history \cup {Footprint(txn)} ELSE history
          /\ txns' = [txns EXCEPT ![c] =
               [txn EXCEPT !.pc = "rollback", !.error = "08006", !.position = 0,
                           !.attempts = IF txn.pc = "begin" THEN @ + 1 ELSE @,
                           !.sent = CASE txn.pc = "begin" -> Append(@, "BEGIN")
                                      [] txn.pc = "check" -> Append(@, "SELECT")
                                      [] txn.pc = "insert" -> Append(@, "INSERT")
                                      [] txn.pc = "waiting" -> @
                                      [] txn.pc = "commit" -> Append(@, "COMMIT"),
                           !.abandoned = @ \cup left]]
  /\ UNCHANGED <<backend, call, begun>>

\* the id an abandoned backend of c waited for has been released: its INSERT
\* is answered, the backend finds its connection gone and aborts, and the rows
\* it held are dropped
ConcAbandonedAnswered(c) ==
  /\ \E b \in Abandoned(c) :
       /\ \A r \in UncommittedOf(Clients) : r.id # b.waits
       /\ txns' = [txns EXCEPT ![c].abandoned = @ \ {b}]
  /\ UNCHANGED <<backend, db, call, history, begun>>

\* an abandoned backend of c and another transaction wait for each other and
\* the deadlock detector picks the abandoned backend: its transaction is
\* aborted and the rows it held are dropped
ConcAbandonedDeadlock(c) ==
  /\ \E b \in Abandoned(c) :
       /\ \/ \E o \in Clients : WaitsForAbandoned(o, b) /\ AbandonedWaitsFor(b, o)
          \/ \E x \in AllAbandoned \ {b} :
               /\ \E r \in x.writes : r.id = b.waits
               /\ \E r \in b.writes : r.id = x.waits
       /\ txns' = [txns EXCEPT ![c].abandoned = @ \ {b}]
  /\ UNCHANGED <<backend, db, call, history, begun>>

\* the server answers every lock wait of an abandoned backend
ConcServerStep(c) == ConcAbandonedAnswered(c) \/ ConcAbandonedDeadlock(c)

ConcLockStep(c) == ConcStep(c) \/ ConcRollbackFails(c)

\* every call checks a condition; both clients can append the same single
\* event, and their two-event batches name the same ids in opposite orders
LockBatches(c) ==
  IF c = "c1" THEN {<<EventA>>, <<EventA, EventB>>} ELSE {<<EventA>>, <<EventB, EventA>>}
LockConditions == {[criteria |-> forTypes(NewEventCriteria, <<"T">>), after |-> 0]}

NextConcLock ==
  \E c \in Clients :
    \/ \E events \in LockBatches(c), given \in LockConditions :
         \/ ConcAppendCall(c, events, given.criteria, given.after)
         \/ ConcConnectRejects(c, events, given.criteria, given.after)
    \/ ConcLockStep(c)
    \/ ConcSerializationFailure(c)
    \/ ConcConnectionFailure(c)
    \/ ConcServerStep(c)

SpecConcLock ==
  /\ InitConc
  /\ [][NextConcLock]_vars
  /\ \A c \in Clients : WF_vars(ConcLockStep(c)) /\ WF_vars(ConcServerStep(c))

Count(statements, statement) ==
  Cardinality({i \in 1 .. Len(statements) : statements[i] = statement})

\* C32 as stated: after BEGIN exactly one of COMMIT or ROLLBACK is issued,
\* ROLLBACK whenever the call ends with an error, and the client is released
\* exactly once
C32_ExactlyOneOfCommitOrRollback ==
  \A c \in Clients :
    txns[c].pc = "settled" /\ txns[c].connected =>
      /\ txns[c].sent[1] = "BEGIN"
      /\ Count(txns[c].sent, "COMMIT") + Count(txns[c].sent, "ROLLBACK") = 1
      /\ txns[c].error # "none" <=> Count(txns[c].sent, "ROLLBACK") = 1
      /\ txns[c].released = 1

\* C32, amended: every append call ends its transaction and gives back its
\* connection on every exit path: after BEGIN, COMMIT is issued at most once
\* and ROLLBACK at most once; the last statement is COMMIT when the call
\* resolves and ROLLBACK when the check, an insert or COMMIT threw, so a
\* failed COMMIT is followed by ROLLBACK; the pooled client is released
\* exactly once, when the call settles, and the error that was caught is the
\* one rethrown even if ROLLBACK itself fails
C32_EndsTransactionAndReleases ==
  /\ [](\A c \in Clients :
          txns[c].pc # "idle" /\ txns[c].connected =>
            /\ txns[c].released = IF txns[c].pc = "settled" THEN 1 ELSE 0
            /\ txns[c].pc \in {"release", "settled"} =>
                 LET sent == txns[c].sent
                 IN /\ sent[1] = "BEGIN"
                    /\ Count(sent, "BEGIN") = 1
                    /\ Count(sent, "COMMIT") <= 1 /\ Count(sent, "ROLLBACK") <= 1
                    /\ txns[c].error = "none" <=> sent[Len(sent)] = "COMMIT"
                    /\ txns[c].error # "none" <=> sent[Len(sent)] = "ROLLBACK"
                    /\ txns[c].swallowed # "none" => txns[c].error # "none")
  /\ [][\A c \in Clients :
          txns[c].pc = "rollback" =>
            txns[c].error # "none" /\ txns'[c].error = txns[c].error]_vars
  /\ \A c \in Clients :
       (txns[c].pc \notin {"idle", "settled"}) ~> (txns[c].pc = "settled" /\ txns[c].released = 1)

\* COMMIT failed with a serialization failure, the ROLLBACK that followed
\* failed too, and the call settled with the serialization failure
C32_Witness ==
  \E c \in Clients :
    /\ txns[c].pc = "settled" /\ txns[c].connected /\ txns[c].released = 1
    /\ txns[c].error = "40001" /\ txns[c].swallowed = "08006"
    /\ Count(txns[c].sent, "COMMIT") = 1 /\ Count(txns[c].sent, "ROLLBACK") = 1

(***************************************************************************)
(* Appends that fail: on the SqliteEventStore one call at a time, on the   *)
(* PostgresEventStore calls that do not await one another, on connections  *)
(* that can break.                                                         *)
(***************************************************************************)
\* a condition that selects EventA and one that selects EventB
ErrorConditions ==
  {[criteria |-> forTypes(NewEventCriteria, <<"T">>), after |-> 0],
   [criteria |-> forTypes(NewEventCriteria, <<"U">>), after |-> 0]}

NextErrors ==
  \/ /\ backend = "sqlite"
     /\ call.op = "idle"
     /\ \E events \in Batches, criteria \in CriteriaPool, after \in Cursors :
          AppendCall(events, criteria, after)
  \/ /\ backend = "sqlite"
     /\ Return
  \/ \E c \in Clients :
       \/ \E events \in LockBatches(c), given \in ErrorConditions :
            \/ ConcAppendCall(c, events, given.criteria, given.after)
            \/ ConcConnectRejects(c, events, given.criteria, given.after)
       \/ ConcLockStep(c)
       \/ ConcSerializationFailure(c)
       \/ ConcConnectionFailure(c)
       \/ ConcServerStep(c)

SpecErrors == Init /\ [][NextErrors]_vars

\* the SELECT of the call's check was answered with a row: the snapshot it
\* ran on held an event that matches the criteria past the cursor
CheckFound(txn) ==
  /\ txn.read
  /\ \E r \in txn.snapshot :
       Matches(db, r, txn.condition.criteria) /\ r.position > txn.condition.after

\* the errors of the engines and of the connection, as the drivers name them
EngineErrors ==
  {"SQLITE_CONSTRAINT_UNIQUE", "SQLITE_CONSTRAINT_PRIMARYKEY", "23505", "40001", "40P01",
   "08006", "ECONNREFUSED"}

\* C14: an append fails with AppendConditionError exactly when its condition
\* check found a matching event; every other failure (duplicate id, tag
\* constraint, serialization conflict, deadlock, connection failure) surfaces
\* as the error of the engine or of the connection, never as
\* AppendConditionError, and stays that error until the call settles
C14_ConditionErrorIffCheckMatched ==
  /\ [][AppendStep =>
          LET found == /\ ~ConditionIsEmpty(call'.condition)
                       /\ \E r \in call'.before.events :
                            /\ Matches(call'.before, r, call'.condition.criteria)
                            /\ r.position > call'.condition.after
          IN /\ call'.error = "AppendConditionError" <=> found
             /\ ~found /\ call'.error # "none" => call'.error \in EngineErrors]_vars
  /\ [](\A c \in Clients :
          txns[c].pc # "idle" =>
            /\ txns[c].error = "AppendConditionError" <=> CheckFound(txns[c])
            /\ ~CheckFound(txns[c]) /\ txns[c].error # "none" => txns[c].error \in EngineErrors)

\* two calls whose checks found nothing have settled, one with the
\* serialization failure of its COMMIT and one with a connection error
C14_Witness ==
  \E c \in Clients, o \in Clients :
    /\ txns[c].pc = "settled" /\ txns[c].read /\ ~CheckFound(txns[c])
    /\ txns[c].error = "40001" /\ Count(txns[c].sent, "COMMIT") = 1
    /\ txns[o].pc = "settled" /\ txns[o].read /\ ~CheckFound(txns[o])
    /\ txns[o].error = "08006"

(***************************************************************************)
(* A caller that keeps its EventCriteria c after handing it over.          *)
(* forTypes / forTags push onto the arrays of c and return c itself; an    *)
(* AppendCondition keeps the reference to the criteria it was given; a     *)
(* builder obtained by c.applyTo(builder) keeps the references to the two  *)
(* arrays of c.  call.criteria is the object c; a reference is the name of *)
(* what it points to.  The store is the SqliteEventStore.                   *)
(***************************************************************************)
NoObject == [made |-> FALSE]

\* AppendCondition.forCriteria(c, after): the empty condition owns a new
\* EventCriteria, any other condition holds c
ForCriteriaObject(c, after) ==
  IF CriteriaIsEmpty(c) THEN [made |-> TRUE, criteria |-> "new EventCriteria()", after |-> 0]
  ELSE [made |-> TRUE, criteria |-> "c", after |-> after]

\* c.applyTo(new QueryBuilder()): withTypes(this._types).withTags(this._tags)
ApplyToObject(c) == [made |-> TRUE, types |-> "c._types", tags |-> "c._tags", after |-> 0]

\* the condition as append reads it: its criteria is whatever the object it
\* refers to holds now
ConditionNow(condition, c) ==
  [criteria |-> IF condition.criteria = "c" THEN c ELSE NewEventCriteria,
   after |-> condition.after]

\* the builder as build() reads it
BuilderNow(builder, c) ==
  [types |-> IF builder.types = "c._types" THEN c.types ELSE <<>>,
   tags |-> IF builder.tags = "c._tags" THEN c.tags ELSE <<>>,
   after |-> builder.after]

InitAlias ==
  /\ backend = "sqlite"
  /\ db = SqliteSchema
  /\ call = [op |-> "caller", criteria |-> NewEventCriteria,
             condition |-> NoObject, conditionGiven |-> NewEventCriteria,
             builder |-> NoObject, builderGiven |-> NewEventCriteria,
             events |-> <<>>, error |-> "none"]
  /\ txns = [c \in Clients |-> NoTxn]
  /\ history = {}
  /\ begun = 0

\* c.forTypes(type)
CallerForTypes(type) ==
  /\ Len(call.criteria.types) < MaxEntries
  /\ call' = [call EXCEPT !.op = "caller", !.criteria = forTypes(@, <<type>>)]
  /\ UNCHANGED <<backend, db, txns, history, begun>>

\* c.forTags(tag)
CallerForTags(tag) ==
  /\ Len(call.criteria.tags) < MaxEntries
  /\ call' = [call EXCEPT !.op = "caller", !.criteria = forTags(@, <<tag>>)]
  /\ UNCHANGED <<backend, db, txns, history, begun>>

\* condition = AppendCondition.forCriteria(c, after)
CallerForCriteria(after) ==
  /\ ~call.condition.made
  /\ call' = [call EXCEPT !.op = "caller",
                          !.condition = ForCriteriaObject(call.criteria, after),
                          !.conditionGiven = call.criteria]
  /\ UNCHANGED <<backend, db, txns, history, begun>>

\* builder = c.applyTo(new QueryBuilder())
CallerApplyTo ==
  /\ ~call.builder.made
  /\ call' = [call EXCEPT !.op = "caller",
                          !.builder = ApplyToObject(call.criteria),
                          !.builderGiven = call.criteria]
  /\ UNCHANGED <<backend, db, txns, history, begun>>

\* await store.append(events, condition) on the SqliteEventStore, which reads
\* the condition and runs the transaction before it returns
CallerAppend(events) ==
  /\ call.condition.made
  /\ db.seq + Len(events) <= MaxSeq
  /\ LET done == SqliteAppend(db, events, ConditionNow(call.condition, call.criteria))
     IN /\ db' = done.db
        /\ call' = [call EXCEPT !.op = "appended", !.events = events, !.error = done.error]
  /\ UNCHANGED <<backend, txns, history, begun>>

AliasBatches == {<<EventA>>, <<EventB>>}

NextAlias ==
  \/ \E type \in {"T", "U"} : CallerForTypes(type)
  \/ \E tag \in {TagX} : CallerForTags(tag)
  \/ \E after \in Cursors : CallerForCriteria(after)
  \/ CallerApplyTo
  \/ \E events \in AliasBatches : CallerAppend(events)

SpecAlias == InitAlias /\ [][NextAlias]_vars

\* C33: an AppendCondition built by forCriteria(c, p) and a query builder
\* obtained from c are unaffected by forTypes / forTags calls made on c
\* afterwards: the builder filters, and the condition rejects, according to
\* the types and tags c had when it was handed over
C33_HandedOverCriteriaKept ==
  /\ [](call.builder.made =>
          StoreBuild(BuilderNow(call.builder, call.criteria))
            = StoreBuild(applyTo(call.builderGiven, NewQueryBuilder)))
  /\ [][call'.op = "appended" =>
          call'.error = StoreAppend(db, call'.events,
                                    forCriteria(call.conditionGiven, call.condition.after)).error]_vars

(***************************************************************************)
(* The store's own builder: one queryBuilder per store, made when the      *)
(* store is, that every events() and every condition check starts from.    *)
(* A chain of builder calls is followed with the object it started from:   *)
(* base is the store's builder, cur the builder the last call returned,    *)
(* curIsBase whether they are the same object.                             *)
(***************************************************************************)
StartChain(queryBuilder) == [base |-> queryBuilder, cur |-> queryBuilder, curIsBase |-> TRUE]

\* variant: withTypes sets the field of the receiver and returns it
ObjWithTypesInPlace(chain, types) ==
  LET set == withTypes(chain.cur, types)
  IN [base |-> IF chain.curIsBase THEN set ELSE chain.base, cur |-> set,
      curIsBase |-> chain.curIsBase]

\* return new SqliteQueryBuilder(types, this._tags, this._after)
ObjWithTypes(chain, types) ==
  [base |-> chain.base, cur |-> withTypes(chain.cur, types), curIsBase |-> FALSE]

\* return new SqliteQueryBuilder(this._types, tags, this._after)
ObjWithTags(chain, tags) ==
  [base |-> chain.base, cur |-> withTags(chain.cur, tags), curIsBase |-> FALSE]

\* return new SqliteQueryBuilder(this._types, this._tags, position)
ObjAfterPosition(chain, position) ==
  [base |-> chain.base, cur |-> afterPosition(chain.cur, position), curIsBase |-> FALSE]

\* the rows of events a built filter selects
Selected(filter, database) ==
  {r \in database.events :
     IF backend = "sqlite" THEN SqliteWhere(filter.text, filter.values, database, r)
     ELSE PostgresWhere(filter.text, filter.values, r)}

SharedCriteria ==
  {NewEventCriteria, forTypes(NewEventCriteria, <<"T">>),
   forTags(forTypes(NewEventCriteria, <<"U">>), <<TagX>>)}
SharedCursors == {0, 1}
SharedBatches == {<<EventA>>, <<EventB>>, <<EventD>>}

NoCall == [criteria |-> NewEventCriteria, after |-> 0]

InitShared ==
  /\ backend \in {"sqlite", "postgres"}
  /\ db = IF backend = "sqlite" THEN SqliteSchema ELSE PostgresSchema
  /\ call = [op |-> "idle", queryBuilder |-> NewQueryBuilder, last |-> NoCall, now |-> NoCall]
  /\ txns = [c \in Clients |-> NoTxn]
  /\ history = {}
  /\ begun = 0

\* store.events(criteria): criteria.appliedTo(this.queryBuilder).build()
SharedEventsCall(criteria) ==
  /\ call.op = "idle"
  /\ LET chain == ObjWithTags(ObjWithTypes(StartChain(call.queryBuilder), criteria.types),
                              criteria.tags)
         rows == OrderByPosition(Selected(StoreBuild(chain.cur), db))
     IN call' = [op |-> "events", queryBuilder |-> chain.base, last |-> call.now,
                 now |-> [criteria |-> criteria, after |-> 0],
                 result |-> [i \in 1 .. Len(rows) |-> rows[i].position]]
  /\ UNCHANGED <<backend, db, txns, history, begun>>

\* the chain appendShouldFail compiles for a condition:
\* criteria.applyTo(this.queryBuilder).afterPosition(after)
ConditionChain(queryBuilder, condition) ==
  ObjAfterPosition(
    ObjWithTags(ObjWithTypes(StartChain(queryBuilder), condition.criteria.types),
                condition.criteria.tags),
    condition.after)

\* store.append(events, AppendCondition.forCriteria(criteria, after)): on the
\* SqliteEventStore the check and the inserts have run when the call returns,
\* on the PostgresEventStore the call goes on statement by statement
SharedAppendCall(events, criteria, after) ==
  /\ call.op = "idle"
  /\ db.seq + Len(events) <= MaxSeq
  /\ LET condition == forCriteria(criteria, after)
         chain == ConditionChain(call.queryBuilder, condition)
         shouldFail == /\ ~ConditionIsEmpty(condition)
                       /\ Selected(StoreBuild(chain.cur), db) # {}
         done == IF shouldFail THEN [db |-> db, error |-> "AppendConditionError"]
                 ELSE SqliteAppend(db, events, EmptyCondition)
         made == [op |-> "pending", queryBuilder |-> call.queryBuilder, last |-> call.now,
                  now |-> [criteria |-> criteria, after |-> after], events |-> events,
                  before |-> db]
     IN IF backend = "sqlite"
        THEN /\ db' = done.db
             /\ call' = [op |-> "append",
                         queryBuilder |-> IF ConditionIsEmpty(condition) THEN call.queryBuilder
                                          ELSE chain.base,
                         last |-> made.last, now |-> made.now, events |-> events,
                         before |-> db, error |-> done.error]
             /\ UNCHANGED txns
        ELSE /\ call' = made
             /\ txns' = [txns EXCEPT ![Caller] = NewTxn(events, condition)]
             /\ UNCHANGED db
  /\ UNCHANGED <<backend, history, begun>>

\* appendShouldFail(client, condition) of the pending append: the SELECT is
\* compiled by this.queryBuilder.forCondition(condition).  The sources of
\* PostgresQueryBuilder define no forCondition; it is taken to be the
\* compile(criteria, afterPosition) of the specification, which is the chain
\* of AppendCondition.buildQuery started from the store's builder
SharedCheck ==
  /\ call.op = "pending"
  /\ txns[Caller].pc = "check"
  /\ LET txn == txns[Caller]
         chain == ConditionChain(call.queryBuilder, txn.condition)
     IN /\ txns' = [txns EXCEPT ![Caller] =
               AfterCheck(txn, Selected(StoreBuild(chain.cur), db) # {}, db.events)]
        /\ call' = [call EXCEPT !.queryBuilder =
                      IF ConditionIsEmpty(txn.condition) THEN @ ELSE chain.base]
  /\ UNCHANGED <<backend, db, history, begun>>

\* the other statements of the pending append
SharedAwaitedStep ==
  \/ ConcBegin(Caller)
  \/ ConcInsert(Caller)
  \/ ConcCommit(Caller)
  \/ ConcRollback(Caller)
  \/ ConcRelease(Caller)

\* the promise of the pending append settles
SharedAppendSettles ==
  /\ call.op = "pending"
  /\ txns[Caller].pc = "settled"
  /\ call' = [op |-> "append", queryBuilder |-> call.queryBuilder, last |-> call.last,
              now |-> call.now, events |-> call.events, before |-> call.before,
              error |-> txns[Caller].error]
  /\ txns' = [txns EXCEPT ![Caller] = NoTxn]
  /\ UNCHANGED <<backend, db, history, begun>>

SharedReturn ==
  /\ call.op \in {"append", "events"}
  /\ call' = [op |-> "idle", queryBuilder |-> call.queryBuilder, last |-> call.last,
              now |-> call.now]
  /\ UNCHANGED <<backend, db, txns, history, begun>>

NextShared ==
  \/ \E criteria \in SharedCriteria : SharedEventsCall(criteria)
  \/ \E events \in SharedBatches, criteria \in SharedCriteria, after \in SharedCursors :
       SharedAppendCall(events, criteria, after)
  \/ SharedCheck
  \/ SharedAwaitedStep
  \/ SharedAppendSettles
  \/ SharedReturn

SpecShared == InitShared /\ [][NextShared]_vars

\* C34: the result of events(criteria) and of an append's condition check
\* depends only on that call's arguments and the log contents, never on the
\* criteria or cursors of earlier calls: withTypes, withTags and afterPosition
\* return a new builder, and the store's shared base builder has no types, no
\* tags and cursor 0 after any sequence of calls
C34_BaseBuilderUntouched ==
  /\ [](call.queryBuilder = NewQueryBuilder)
  /\ [][/\ (call.op = "idle" /\ call'.op = "events") =>
             call'.result = [i \in 1 .. Len(StoreEvents(db, call'.now.criteria)) |->
                               StoreEvents(db, call'.now.criteria)[i].position]
        /\ AppendStep =>
             LET alone == StoreAppend(call'.before, call'.events,
                                      forCriteria(call'.now.criteria, call'.now.after))
             IN call'.error = alone.error /\ db' = alone.db]_vars

\* a read with empty criteria returned the whole log right after an append
\* whose condition carried a type, a tag and a cursor
C34_Witness ==
  /\ call.op = "events" /\ call.now.criteria = NewEventCriteria
  /\ call.last.criteria.types # <<>> /\ call.last.criteria.tags # <<>> /\ call.last.after # 0
  /\ Len(call.result) = 2

\* C36: append with an empty event list succeeds and leaves the log unchanged
\* when its condition is empty or holds, and is still rejected with the
\* condition error when its condition is violated
C36_EmptyBatch ==
  [][(AppendStep /\ call'.events = <<>>) =>
       LET violated == /\ ~ConditionIsEmpty(call'.condition)
                       /\ \E r \in call'.before.events :
                            /\ Matches(call'.before, r, call'.condition.criteria)
                            /\ r.position > call'.condition.after
       IN /\ db' = call'.before
          /\ call'.error = IF violated THEN "AppendConditionError" ELSE "none"]_vars

\* an append of no events was rejected: the log holds an event that matches
\* its criteria after its cursor, which is a position of the log
C36_Witness ==
  /\ call.op = "append" /\ call.events = <<>> /\ call.error = "AppendConditionError"
  /\ call.condition.after \in Positions(db)

====
